---- MODULE Spec2Model ----
(***************************************************************************)
(* A model of proteus (src-d/proteus): the concurrent package scanner and   *)
(* its caching importer, the resolver, the protobuf transformer and the     *)
(* enum collection of the scanner, the struct scan, the package naming and  *)
(* the writing of the generated file.                                       *)
(*                                                                          *)
(* Six specifications share the module:                                     *)
(*   SpecScan  Scanner.Scan: one goroutine per input path, the importer     *)
(*             cache, Scan's result and error lists, the report package.    *)
(*   SpecScanFair  SpecScan under the fairness of the Go scheduler.         *)
(*   Spec      transformToProtobuf: Resolver.Resolve, then Transform and    *)
(*             generate per package, over a bounded family of scanned       *)
(*             packages, errors included; then a second call of Resolve.    *)
(*   SpecDet   two executions of collectEnums / Transform on one input.     *)
(*   SpecFn    scanStruct, toProtobufPkg, scanObject's Stringer check,      *)
(*             Message.Reserve, Package.Import and genMethodCall applied    *)
(*             to bounded inputs.                                           *)
(*   SpecWrite Generator.writeFile step by step, failures included.         *)
(***************************************************************************)
EXTENDS Integers, Sequences, FiniteSets, TLC

VARIABLES
    \* ---- Scanner.Scan and the importer (SpecScan)
    paths,        \* Scanner.packages: the input import paths
    bad,          \* the paths whose source does not parse / type-check
    testing,      \* report.testing
    tpc,          \* position of every scan goroutine
    stack,        \* ImportFrom call frames of every goroutine
    ret,          \* value returned by the goroutine's last ImportFrom
    impMut,       \* Importer.mut: 0 or the goroutine holding it
    cache,        \* Importer.cache
    returned,     \* history: (path, package) of every successful ImportFrom
    parsedBy,     \* history: (path, goroutine) of every successful parse
    cacheWrites,  \* history: number of writes of each cache entry
    scanMut,      \* Scan's mut: 0 or the goroutine holding it
    pkgs,         \* Scan's pkgs slice
    errors,       \* Scan's errorList
    wg,           \* Scan's WaitGroup counter
    msgStack,     \* report.msgStack
    msgLocal,     \* the slice value a goroutine read in report()
    scanned,      \* what scanPackage returned to every goroutine
    recorded,     \* history: the goroutines in the order they took Scan's mut
    scanRet,      \* what Scan returned
    \* ---- Resolve and Transform (Spec)
    input,        \* the scanned packages as Scan returned them
    spkgs,        \* the scanner packages, as Resolve mutates them
    info,         \* the resolver's packagesInfo
    pcP,          \* position of transformToProtobuf
    idx,          \* number of packages the running loop has handled
    structSet,    \* Transformer.structSet
    enumSet,      \* Transformer.enumSet
    ppkgs,        \* the protobuf packages Transform produced
    files,        \* the generated.proto files Generate wrote
    rpkgs,        \* history: the packages as the first Resolve left them
    \* ---- two executions on one input (SpecDet)
    dIn,          \* the scan context: the aliases that have enum values
    dLeft,        \* per execution: keys of p.Aliases the range has not visited
    dPkg,         \* per execution: the scanner package being built
    dOut,         \* per execution: the generated file, once written
    \* ---- one function, or one sequence of calls, on one input (SpecFn)
    fIn,          \* the function to apply and its argument
    fOut,         \* its result, once it returned
    \* ---- Generator.writeFile (SpecWrite)
    wOld,         \* history: generated.proto as it was before the call
    wNew,         \* data, the bytes Generate hands to writeFile
    disk,         \* generated.proto on disk
    wpc           \* position of writeFile

scanVars == <<paths, bad, testing, tpc, stack, ret, impMut, cache, returned,
              parsedBy, cacheWrites, scanMut, pkgs, errors, wg, msgStack,
              msgLocal, scanned, recorded, scanRet>>

pipeVars == <<input, spkgs, info, pcP, idx, structSet, enumSet, ppkgs,
              files, rpkgs>>

detVars == <<dIn, dLeft, dPkg, dOut>>

fnVars == <<fIn, fOut>>

writeVars == <<wOld, wNew, disk, wpc>>

vars == <<scanVars, pipeVars, detVars, fnVars, writeVars>>

\* the state outside the part that runs: every other part is at rest
OthersIdle(part) ==
    /\ part # "scan" =>
           /\ paths = <<>>
           /\ bad = {}
           /\ testing = FALSE
           /\ tpc = <<>>
           /\ stack = <<>>
           /\ ret = <<>>
           /\ impMut = 0
           /\ cache = <<>>
           /\ returned = {}
           /\ parsedBy = {}
           /\ cacheWrites = <<>>
           /\ scanMut = 0
           /\ pkgs = <<>>
           /\ errors = <<>>
           /\ wg = 0
           /\ msgStack = <<>>
           /\ msgLocal = <<>>
           /\ scanned = <<>>
           /\ recorded = <<>>
           /\ scanRet = [state |-> "idle"]
    /\ part # "pipe" =>
           /\ input = <<>>
           /\ spkgs = <<>>
           /\ info = [aliases |-> <<>>, packages |-> {}, structs |-> <<>>]
           /\ pcP = "idle"
           /\ idx = 0
           /\ structSet = {}
           /\ enumSet = {}
           /\ ppkgs = <<>>
           /\ files = <<>>
           /\ rpkgs = <<>>
    /\ part # "det" =>
           /\ dIn = [vals |-> {}, gen |-> {}, layout |-> "block"]
           /\ dLeft = <<>>
           /\ dPkg = <<>>
           /\ dOut = <<>>
    /\ part # "fn" =>
           /\ fIn = [op |-> "none"]
           /\ fOut = [done |-> FALSE]
    /\ part # "write" =>
           /\ wOld = [exists |-> FALSE, data |-> <<>>]
           /\ wNew = <<>>
           /\ disk = [exists |-> FALSE, data |-> <<>>]
           /\ wpc = "idle"

-----------------------------------------------------------------------------
(* Bounds *)

\* number of input paths handed to scanner.New, one goroutine each
NumTasks == 2

\* largest number of fields of the struct whose declaration is varied
MaxFields == 2

-----------------------------------------------------------------------------
(* The source tree the scanner reads: three packages; a and b import c.     *)

Paths == {"a", "b", "c"}

\* the import declarations of a package, in source order
ImportsOf(p) == IF p \in {"a", "b"} THEN <<"c">> ELSE <<>>

\* the packages whose scan meets a type scanType cannot represent and warns
Warns(p) == p \in {"a", "b"}

Tasks == 1..NumTasks

NoPkg == <<>>

\* the *types.Package a goroutine t builds for path p: a fresh object
NewTypesPackage(p, t) == <<p, t>>

NoResult == [ok |-> FALSE, pkg |-> NoPkg]

Frame(p) == [path |-> p, pc |-> "lock1", todo |-> ImportsOf(p), pkg |-> NoPkg]

Top(t) == stack[t][Len(stack[t])]

Pop(s) == SubSeq(s, 1, Len(s) - 1)

SetTop(t, f) == [stack EXCEPT ![t] = Append(Pop(stack[t]), f)]

InImport(t, pc) == tpc[t] = "import" /\ stack[t] # <<>> /\ Top(t).pc = pc

-----------------------------------------------------------------------------
(* source.Importer.ImportFrom *)

\* i.mut.Lock() at the head of ImportFrom
ImportLock1(t) ==
    /\ InImport(t, "lock1")
    /\ impMut = 0
    /\ impMut' = t
    /\ stack' = SetTop(t, [Top(t) EXCEPT !.pc = "check"])
    /\ UNCHANGED <<pipeVars, detVars, fnVars, writeVars>>
    /\ UNCHANGED <<paths, bad, testing, tpc, ret, cache, returned, parsedBy,
                   cacheWrites, scanMut, pkgs, errors, wg, msgStack, msgLocal,
                   scanned, recorded, scanRet>>

\* an ImportFrom that keeps i.mut locked after the cache lookup
ImportCheckKeepsLock(t) ==
    /\ InImport(t, "check")
    /\ impMut = t
    /\ impMut' = impMut
    /\ IF cache[Top(t).path] # NoPkg
       THEN /\ stack' = [stack EXCEPT ![t] = Pop(stack[t])]
            /\ ret' = [ret EXCEPT ![t] = [ok |-> TRUE, pkg |-> cache[Top(t).path]]]
            /\ returned' = returned \cup {<<Top(t).path, cache[Top(t).path]>>}
       ELSE /\ stack' = SetTop(t, [Top(t) EXCEPT !.pc = "parse"])
            /\ UNCHANGED <<ret, returned>>
    /\ UNCHANGED <<pipeVars, detVars, fnVars, writeVars>>
    /\ UNCHANGED <<paths, bad, testing, tpc, cache, parsedBy, cacheWrites,
                   scanMut, pkgs, errors, wg, msgStack, msgLocal, scanned, recorded, scanRet>>

\* if pkg, ok := i.cache[path]; ok { Unlock; return pkg, nil }; Unlock
ImportCheck(t) ==
    /\ InImport(t, "check")
    /\ impMut = t
    /\ impMut' = 0
    /\ IF cache[Top(t).path] # NoPkg
       THEN /\ stack' = [stack EXCEPT ![t] = Pop(stack[t])]
            /\ ret' = [ret EXCEPT ![t] = [ok |-> TRUE, pkg |-> cache[Top(t).path]]]
            /\ returned' = returned \cup {<<Top(t).path, cache[Top(t).path]>>}
       ELSE /\ stack' = SetTop(t, [Top(t) EXCEPT !.pc = "parse"])
            /\ UNCHANGED <<ret, returned>>
    /\ UNCHANGED <<pipeVars, detVars, fnVars, writeVars>>
    /\ UNCHANGED <<paths, bad, testing, tpc, cache, parsedBy, cacheWrites,
                   scanMut, pkgs, errors, wg, msgStack, msgLocal, scanned, recorded, scanRet>>

\* parseSourceFiles: config.Check imports every dependency through the same
\* Importer (a nested ImportFrom), then type-checks the package itself
ImportParseDep(t) ==
    /\ InImport(t, "parse")
    /\ Top(t).todo # <<>>
    /\ stack' = [stack EXCEPT ![t] =
                    Append(Append(Pop(stack[t]),
                                  [Top(t) EXCEPT !.todo = Tail(Top(t).todo),
                                                 !.pc = "dep"]),
                           Frame(Head(Top(t).todo)))]
    /\ UNCHANGED <<pipeVars, detVars, fnVars, writeVars>>
    /\ UNCHANGED <<paths, bad, testing, tpc, ret, impMut, cache, returned,
                   parsedBy, cacheWrites, scanMut, pkgs, errors, wg, msgStack,
                   msgLocal, scanned, recorded, scanRet>>

\* the nested import returned: an error fails the type check of the importer
ImportDepDone(t) ==
    /\ InImport(t, "dep")
    /\ IF ret[t].ok
       THEN /\ stack' = SetTop(t, [Top(t) EXCEPT !.pc = "parse"])
            /\ ret' = ret
       ELSE /\ stack' = [stack EXCEPT ![t] = Pop(stack[t])]
            /\ ret' = [ret EXCEPT ![t] = [ok |-> FALSE, pkg |-> NoPkg]]
    /\ UNCHANGED <<pipeVars, detVars, fnVars, writeVars>>
    /\ UNCHANGED <<paths, bad, testing, tpc, impMut, cache, returned, parsedBy,
                   cacheWrites, scanMut, pkgs, errors, wg, msgStack, msgLocal,
                   scanned, recorded, scanRet>>

\* pkg, err := i.parseSourceFiles(root, files); if err != nil { return nil, err }
ImportParse(t) ==
    /\ InImport(t, "parse")
    /\ Top(t).todo = <<>>
    /\ IF Top(t).path \in bad
       THEN /\ stack' = [stack EXCEPT ![t] = Pop(stack[t])]
            /\ ret' = [ret EXCEPT ![t] = [ok |-> FALSE, pkg |-> NoPkg]]
            /\ UNCHANGED parsedBy
       ELSE /\ stack' = SetTop(t, [Top(t) EXCEPT
                                      !.pc = "lock2",
                                      !.pkg = NewTypesPackage(Top(t).path, t)])
            /\ parsedBy' = parsedBy \cup {<<Top(t).path, t>>}
            /\ UNCHANGED ret
    /\ UNCHANGED <<pipeVars, detVars, fnVars, writeVars>>
    /\ UNCHANGED <<paths, bad, testing, tpc, impMut, cache, returned,
                   cacheWrites, scanMut, pkgs, errors, wg, msgStack, msgLocal,
                   scanned, recorded, scanRet>>

\* i.mut.Lock() before the cache is written
ImportLock2(t) ==
    /\ InImport(t, "lock2")
    /\ impMut = 0
    /\ impMut' = t
    /\ stack' = SetTop(t, [Top(t) EXCEPT !.pc = "store"])
    /\ UNCHANGED <<pipeVars, detVars, fnVars, writeVars>>
    /\ UNCHANGED <<paths, bad, testing, tpc, ret, cache, returned, parsedBy,
                   cacheWrites, scanMut, pkgs, errors, wg, msgStack, msgLocal,
                   scanned, recorded, scanRet>>

\* i.cache[path] = pkg; i.mut.Unlock(); return pkg, nil
ImportStore(t) ==
    /\ InImport(t, "store")
    /\ impMut = t
    /\ impMut' = 0
    /\ cache' = [cache EXCEPT ![Top(t).path] = Top(t).pkg]
    /\ cacheWrites' = [cacheWrites EXCEPT ![Top(t).path] = @ + 1]
    /\ returned' = returned \cup {<<Top(t).path, Top(t).pkg>>}
    /\ stack' = [stack EXCEPT ![t] = Pop(stack[t])]
    /\ ret' = [ret EXCEPT ![t] = [ok |-> TRUE, pkg |-> Top(t).pkg]]
    /\ UNCHANGED <<pipeVars, detVars, fnVars, writeVars>>
    /\ UNCHANGED <<paths, bad, testing, tpc, parsedBy, scanMut, pkgs, errors,
                   wg, msgStack, msgLocal, scanned, recorded, scanRet>>

-----------------------------------------------------------------------------
(* scanner.Scanner.Scan and its goroutines *)

\* the scanner.Package buildPackage makes of the package at path p
ScannedPackage(p) == [Path |-> p]

\* a nil *Package
NilPackage == [Path |-> "<nil>"]

\* pkg, err := s.scanPackage(p): the call of importer.ImportWithFilters
TaskStart(t) ==
    /\ tpc[t] = "start"
    /\ tpc' = [tpc EXCEPT ![t] = "import"]
    /\ stack' = [stack EXCEPT ![t] = <<Frame(paths[t])>>]
    /\ UNCHANGED <<pipeVars, detVars, fnVars, writeVars>>
    /\ UNCHANGED <<paths, bad, testing, ret, impMut, cache, returned, parsedBy,
                   cacheWrites, scanMut, pkgs, errors, wg, msgStack, msgLocal,
                   scanned, recorded, scanRet>>

\* scanPackage after the import: an import error is returned; otherwise
\* newContext and buildPackage walk the scope (scanType warns on a type it
\* cannot represent)
TaskBuild(t) ==
    /\ tpc[t] = "import"
    /\ stack[t] = <<>>
    /\ IF ~ret[t].ok
       THEN /\ scanned' = [scanned EXCEPT ![t] = [ok |-> FALSE, pkg |-> NilPackage]]
            /\ tpc' = [tpc EXCEPT ![t] = "lock"]
       ELSE /\ scanned' = [scanned EXCEPT ![t] =
                              [ok |-> TRUE, pkg |-> ScannedPackage(paths[t])]]
            /\ tpc' = [tpc EXCEPT ![t] =
                          IF Warns(paths[t]) THEN "report" ELSE "lock"]
    /\ UNCHANGED <<pipeVars, detVars, fnVars, writeVars>>
    /\ UNCHANGED <<paths, bad, testing, stack, ret, impMut, cache, returned,
                   parsedBy, cacheWrites, scanMut, pkgs, errors, wg, msgStack,
                   msgLocal, recorded, scanRet>>

\* report.report: if testing { msgStack = append(msgStack, ...) }; this step is
\* the read of the two globals
Report(t) ==
    /\ tpc[t] = "report"
    /\ IF testing
       THEN /\ msgLocal' = [msgLocal EXCEPT ![t] = msgStack]
            /\ tpc' = [tpc EXCEPT ![t] = "append"]
       ELSE /\ tpc' = [tpc EXCEPT ![t] = "lock"]
            /\ UNCHANGED msgLocal
    /\ UNCHANGED <<pipeVars, detVars, fnVars, writeVars>>
    /\ UNCHANGED <<paths, bad, testing, stack, ret, impMut, cache, returned,
                   parsedBy, cacheWrites, scanMut, pkgs, errors, wg, msgStack,
                   scanned, recorded, scanRet>>

\* the write of msgStack: the slice read earlier, with one message more
ReportAppend(t) ==
    /\ tpc[t] = "append"
    /\ msgStack' = Append(msgLocal[t], paths[t])
    /\ tpc' = [tpc EXCEPT ![t] = "lock"]
    /\ UNCHANGED <<pipeVars, detVars, fnVars, writeVars>>
    /\ UNCHANGED <<paths, bad, testing, stack, ret, impMut, cache, returned,
                   parsedBy, cacheWrites, scanMut, pkgs, errors, wg, msgLocal,
                   scanned, recorded, scanRet>>

\* mut.Lock()
TaskLock(t) ==
    /\ tpc[t] = "lock"
    /\ scanMut = 0
    /\ scanMut' = t
    /\ tpc' = [tpc EXCEPT ![t] = "record"]
    /\ UNCHANGED <<pipeVars, detVars, fnVars, writeVars>>
    /\ UNCHANGED <<paths, bad, testing, stack, ret, impMut, cache, returned,
                   parsedBy, cacheWrites, pkgs, errors, wg, msgStack, msgLocal,
                   scanned, recorded, scanRet>>

\* a Scan that appends each package as its goroutine finishes
ScanStoreAppend(ps, i, pkg) ==
    LET free == {j \in DOMAIN ps : ps[j] = NilPackage}
        k == CHOOSE j \in free : \A m \in free : j <= m
    IN  [ps EXCEPT ![k] = pkg]

\* pkgs[i] = pkg
ScanStore(ps, i, pkg) == [ps EXCEPT ![i] = pkg]

\* errorList.add
errorListAdd(l, e) == Append(l, e)

\* if err != nil { errors.add(...); return }; pkgs[i] = pkg; then the deferred
\* mut.Unlock() and wg.Done()
TaskRecord(t) ==
    /\ tpc[t] = "record"
    /\ scanMut = t
    /\ IF ~scanned[t].ok
       THEN /\ errors' = errorListAdd(errors, paths[t])
            /\ UNCHANGED pkgs
       ELSE /\ pkgs' = ScanStore(pkgs, t, scanned[t].pkg)
            /\ UNCHANGED errors
    /\ scanMut' = 0
    /\ wg' = wg - 1
    /\ recorded' = Append(recorded, t)
    /\ tpc' = [tpc EXCEPT ![t] = "done"]
    /\ UNCHANGED <<pipeVars, detVars, fnVars, writeVars>>
    /\ UNCHANGED <<paths, bad, testing, stack, ret, impMut, cache, returned,
                   parsedBy, cacheWrites, msgStack, msgLocal, scanned, scanRet>>

\* an err() that reports the first error only
errorListErrFirst(l) == <<l[1]>>

\* errorList.err: the messages of all errors, joined (one line each)
errorListErr(l) == l

\* wg.Wait() returns when the counter is zero
WaitDone(w) == w = 0

\* wg.Wait(); if len(errors) > 0 { return nil, errors.err() }; return pkgs, nil
ScanReturn ==
    /\ scanRet.state = "running"
    /\ WaitDone(wg)
    /\ scanRet' = IF Len(errors) > 0
                  THEN [state |-> "returned", pkgs |-> <<>>, isNil |-> TRUE,
                        err |-> errorListErr(errors)]
                  ELSE [state |-> "returned", pkgs |-> pkgs, isNil |-> FALSE,
                        err |-> <<>>]
    /\ UNCHANGED <<pipeVars, detVars, fnVars, writeVars>>
    /\ UNCHANGED <<paths, bad, testing, tpc, stack, ret, impMut, cache,
                   returned, parsedBy, cacheWrites, scanMut, pkgs, errors, wg,
                   msgStack, msgLocal, scanned, recorded>>

\* injective sequences of n elements of S
RECURSIVE Arrangements(_, _)
Arrangements(S, n) ==
    IF n = 0 THEN {<<>>}
    ELSE UNION {{Append(s, x) : x \in S \ {s[i] : i \in 1..Len(s)}} :
                s \in Arrangements(S, n - 1)}

BadChoices == {{}} \cup {{p} : p \in Paths}

InitScan ==
    /\ paths \in Arrangements(Paths, NumTasks)
    /\ bad \in BadChoices
    /\ testing \in BOOLEAN
    /\ tpc = [t \in Tasks |-> "start"]
    /\ stack = [t \in Tasks |-> <<>>]
    /\ ret = [t \in Tasks |-> NoResult]
    /\ impMut = 0
    /\ cache = [p \in Paths |-> NoPkg]
    /\ returned = {}
    /\ parsedBy = {}
    /\ cacheWrites = [p \in Paths |-> 0]
    /\ scanMut = 0
    /\ pkgs = [t \in Tasks |-> NilPackage]
    /\ errors = <<>>
    /\ wg = NumTasks
    /\ msgStack = <<>>
    /\ msgLocal = [t \in Tasks |-> <<>>]
    /\ scanned = [t \in Tasks |-> [ok |-> FALSE, pkg |-> NilPackage]]
    /\ recorded = <<>>
    /\ scanRet = [state |-> "running"]
    /\ OthersIdle("scan")

NextScan ==
    \/ \E t \in Tasks : TaskStart(t)
    \/ \E t \in Tasks : ImportLock1(t)
    \/ \E t \in Tasks : ImportCheck(t)
    \/ \E t \in Tasks : ImportParseDep(t)
    \/ \E t \in Tasks : ImportDepDone(t)
    \/ \E t \in Tasks : ImportParse(t)
    \/ \E t \in Tasks : ImportLock2(t)
    \/ \E t \in Tasks : ImportStore(t)
    \/ \E t \in Tasks : TaskBuild(t)
    \/ \E t \in Tasks : Report(t)
    \/ \E t \in Tasks : ReportAppend(t)
    \/ \E t \in Tasks : TaskLock(t)
    \/ \E t \in Tasks : TaskRecord(t)
    \/ ScanReturn

SpecScan == InitScan /\ [][NextScan]_vars

\* Scan under the Go scheduler: a goroutine that can run is eventually run, so
\* the program does not stop while some step of it is possible
SpecScanFair == SpecScan /\ WF_vars(NextScan)

-----------------------------------------------------------------------------
(* Names and paths are sequences of characters *)

NoPath == <<>>

\* import paths: g/p and g/q are scanned, the others are not
GoPath ==
    [P |-> <<"g", "/", "p">>,
     Q |-> <<"g", "/", "q">>,
     Os |-> <<"o", "s">>,
     Time |-> <<"t", "i", "m", "e">>,
     Context |-> <<"c", "o", "n", "t", "e", "x", "t">>]

\* identifiers of the Go source
Names ==
    [int |-> <<"i", "n", "t">>,
     string |-> <<"s", "t", "r", "i", "n", "g">>,
     byte |-> <<"b", "y", "t", "e">>,
     complex64 |-> <<"c", "o", "m", "p", "l", "e", "x", "6", "4">>,
     error |-> <<"e", "r", "r", "o", "r">>,
     Time |-> <<"T", "i", "m", "e">>,
     Duration |-> <<"D", "u", "r", "a", "t", "i", "o", "n">>,
     Context |-> <<"C", "o", "n", "t", "e", "x", "t">>,
     File |-> <<"F", "i", "l", "e">>,
     A |-> <<"A">>,
     B |-> <<"B">>,
     X |-> <<"X">>,
     E |-> <<"E">>,
     M |-> <<"M">>,
     L |-> <<"L">>,
     K |-> <<"K">>,
     T |-> <<"T">>]


-----------------------------------------------------------------------------
(* scanner types (package.go) *)

NilT == [kind |-> "Nil"]

\* scanner.NewBasic, scanner.NewNamed, scanner.NewMap, scanner.NewAlias
NewBasic(name) ==
    [kind |-> "Basic", name |-> name, rep |-> FALSE, nul |-> FALSE]
NewNamed(path, name) ==
    [kind |-> "Named", path |-> path, name |-> name, rep |-> FALSE,
     nul |-> FALSE]
NewMap(key, val) ==
    [kind |-> "Map", key |-> key, val |-> val, rep |-> FALSE, nul |-> FALSE]
NewAlias(typ, underlying) ==
    [kind |-> "Alias", type |-> typ, underlying |-> underlying]

\* SetRepeated(true), SetNullable(true)
Repeated(t) == [t EXCEPT !.rep = TRUE]
Nullable(t) == [t EXCEPT !.nul = TRUE]

\* Type.IsRepeated: BaseType's flag; for an Alias, either side
RECURSIVE IsRepeated(_)
IsRepeated(t) ==
    CASE t.kind = "Alias" -> IsRepeated(t.type) \/ IsRepeated(t.underlying)
      [] t.kind = "Nil" -> FALSE
      [] OTHER -> t.rep

\* Named.String(): the qualified name, here the pair (path, name)
QName(path, name) == <<path, name>>
NamedString(t) == QName(t.path, t.name)

\* the Go types that occur in the packages of the model
Ty ==
    [int |-> NewBasic(Names.int),
     string |-> NewBasic(Names.string),
     complex64 |-> NewBasic(Names.complex64),
     B |-> NewNamed(GoPath.P, Names.B),
     X |-> NewNamed(GoPath.Q, Names.X),
     E |-> NewNamed(GoPath.P, Names.E),
     M |-> NewNamed(GoPath.P, Names.M),
     L |-> NewNamed(GoPath.P, Names.L),
     File |-> NewNamed(GoPath.Os, Names.File),
     Time |-> NewNamed(GoPath.Time, Names.Time),
     Context |-> NewNamed(GoPath.Context, Names.Context),
     error |-> NewNamed(NoPath, Names.error)]

-----------------------------------------------------------------------------
(* resolver (resolver.go) *)

\* Resolver.customTypes as New() registers them
CustomTypes == {QName(GoPath.Time, Names.Time),
                QName(GoPath.Time, Names.Duration),
                QName(NoPath, Names.error)}

isCustomType(n) == NamedString(n) \in CustomTypes

\* packagesEnums
packagesEnums(ps) ==
    UNION {{QName(ps[i].Path, ps[i].Enums[j].Name) :
               j \in 1..Len(ps[i].Enums)} : i \in 1..Len(ps)}

\* v named r in the expression Op(r), v computed once
With(v, Op(_)) == Op(v)

\* union of two maps, the entries of b winning
MapMerge(a, b) ==
    [k \in DOMAIN a \cup DOMAIN b |-> IF k \in DOMAIN b THEN b[k] ELSE a[k]]

EmptyMap == [k \in {} |-> NilT]

\* the entries of a map whose key is in keys
MapRestrict(m, keys) == [k \in DOMAIN m \cap keys |-> m[k]]

\* getPackagesInfo: the aliases of all packages except the enums, the set of
\* scanned paths, and for every struct its Generate flag as the initial mark
RECURSIVE packagesAliases(_, _)
packagesAliases(ps, enums) ==
    IF ps = <<>> THEN EmptyMap
    ELSE MapMerge(MapRestrict(Head(ps).Aliases,
                              DOMAIN Head(ps).Aliases \ enums),
                  packagesAliases(Tail(ps), enums))

RECURSIVE packagesStructs(_)
packagesStructs(ps) ==
    IF ps = <<>> THEN [k \in {} |-> FALSE]
    ELSE LET p == Head(ps)
             own == [k \in {QName(p.Path, p.Structs[j].Name) :
                               j \in 1..Len(p.Structs)} |->
                       LET j == CHOOSE j \in 1..Len(p.Structs) :
                                   /\ QName(p.Path, p.Structs[j].Name) = k
                                   /\ \A m \in 1..Len(p.Structs) :
                                         QName(p.Path, p.Structs[m].Name) = k
                                            => m <= j
                       IN  p.Structs[j].Generate]
         IN  MapMerge(own, packagesStructs(Tail(ps)))

getPackagesInfo(ps) ==
    [aliases  |-> packagesAliases(ps, packagesEnums(ps)),
     packages |-> {ps[i].Path : i \in 1..Len(ps)},
     structs  |-> packagesStructs(ps)]

hasPackage(i, path) == path \in i.packages
hasAlias(i, n) == NamedString(n) \in DOMAIN i.aliases /\
                  i.aliases[NamedString(n)] # NilT
aliasOf(i, n) == i.aliases[NamedString(n)]
isStruct(i, qn) == qn \in DOMAIN i.structs
isStructMarked(i, qn) == qn \in DOMAIN i.structs /\ i.structs[qn]
markStructs(i, qns) ==
    [i EXCEPT !.structs = [k \in DOMAIN i.structs |->
                              i.structs[k] \/ k \in qns]]

\* Resolver.resolveType. The result is the resolved type (NilT for nil) and
\* the structs the call marks in info.
RECURSIVE resolveType(_, _)
resolveType(t, i) ==
    CASE t.kind = "Named" ->
            IF isCustomType(t) THEN [typ |-> t, marks |-> {}]
            ELSE IF ~hasPackage(i, t.path) THEN [typ |-> NilT, marks |-> {}]
            ELSE IF hasAlias(i, t)
                 THEN IF IsRepeated(aliasOf(i, t))
                      THEN [typ |-> NilT, marks |-> {}]
                      ELSE [typ |-> NewAlias(t, aliasOf(i, t)), marks |-> {}]
            ELSE [typ |-> t,
                  marks |-> IF isStruct(i, NamedString(t))
                            THEN {NamedString(t)} ELSE {}]
      [] t.kind = "Basic" -> [typ |-> t, marks |-> {}]
      [] t.kind = "Map" ->
            With(resolveType(t.key, i), LAMBDA k :
            With(resolveType(t.val, i), LAMBDA v :
                [typ |-> [t EXCEPT !.key = k.typ, !.val = v.typ],
                 marks |-> k.marks \cup v.marks]))
      [] OTHER -> [typ |-> NilT, marks |-> {}]

\* Resolver.resolveStruct: the fields whose type resolves, with that type
RECURSIVE resolveFields(_, _)
resolveFields(fields, i) ==
    IF fields = <<>> THEN [fields |-> <<>>, marks |-> {}]
    ELSE With(resolveType(Head(fields).Type, i), LAMBDA r :
         With(resolveFields(Tail(fields), i), LAMBDA rest :
             [fields |-> IF r.typ # NilT
                         THEN <<[Head(fields) EXCEPT !.Type = r.typ]>>
                              \o rest.fields
                         ELSE rest.fields,
              marks |-> r.marks \cup rest.marks]))

resolveStruct(s, i) ==
    With(resolveFields(s.Fields, i), LAMBDA r :
        [struct |-> [s EXCEPT !.Fields = r.fields], marks |-> r.marks])

\* Resolver.resolveTypeList: nil (ok = FALSE) at the first type that does not
\* resolve; the types before it have been resolved, and marked, by then
RECURSIVE resolveTypeList(_, _)
resolveTypeList(types, i) ==
    IF types = <<>> THEN [ok |-> TRUE, types |-> <<>>, marks |-> {}]
    ELSE With(resolveType(Head(types), i), LAMBDA r :
             IF r.typ = NilT
             THEN [ok |-> FALSE, types |-> <<>>, marks |-> r.marks]
             ELSE With(resolveTypeList(Tail(types), i), LAMBDA rest :
                      [ok |-> rest.ok,
                       types |-> IF rest.ok THEN <<r.typ>> \o rest.types
                                 ELSE <<>>,
                       marks |-> r.marks \cup rest.marks]))

\* Resolver.resolveFunc
resolveFunc(f, i) ==
    With(resolveTypeList(f.Input, i), LAMBDA ins :
        IF ~ins.ok
        THEN [ok |-> FALSE, func |-> f, marks |-> ins.marks]
        ELSE With(resolveTypeList(f.Output, i), LAMBDA outs :
                 [ok |-> outs.ok,
                  func |-> [f EXCEPT !.Input = ins.types,
                                     !.Output = outs.types],
                  marks |-> ins.marks \cup outs.marks]))

RECURSIVE resolveStructs(_, _)
resolveStructs(structs, i) ==
    IF structs = <<>> THEN [structs |-> <<>>, marks |-> {}]
    ELSE With(resolveStruct(Head(structs), i), LAMBDA r :
         With(resolveStructs(Tail(structs), i), LAMBDA rest :
             [structs |-> <<r.struct>> \o rest.structs,
              marks |-> r.marks \cup rest.marks]))

RECURSIVE resolveFuncs(_, _)
resolveFuncs(funcs, i) ==
    IF funcs = <<>> THEN [funcs |-> <<>>, marks |-> {}]
    ELSE With(resolveFunc(Head(funcs), i), LAMBDA r :
         With(resolveFuncs(Tail(funcs), i), LAMBDA rest :
             [funcs |-> IF r.ok THEN <<r.func>> \o rest.funcs
                        ELSE rest.funcs,
              marks |-> r.marks \cup rest.marks]))

\* Resolver.removeUnmarkedStructs
RECURSIVE removeUnmarkedStructs(_, _, _)
removeUnmarkedStructs(path, structs, i) ==
    IF structs = <<>> THEN <<>>
    ELSE (IF isStructMarked(i, QName(path, Head(structs).Name))
          THEN <<Head(structs)>> ELSE <<>>)
         \o removeUnmarkedStructs(path, Tail(structs), i)

\* Resolver.resolvePackage: the package after the call and info after it
resolvePackage(p, i) ==
    With(resolveStructs(p.Structs, i), LAMBDA ss :
    With(resolveFuncs(p.Funcs, markStructs(i, ss.marks)), LAMBDA fs :
    With(markStructs(i, ss.marks \cup fs.marks), LAMBDA i2 :
        [pkg |-> [p EXCEPT !.Structs =
                              removeUnmarkedStructs(p.Path, ss.structs, i2),
                           !.Funcs = fs.funcs,
                           !.Resolved = TRUE],
         info |-> i2])))

-----------------------------------------------------------------------------
(* characters (the unicode package, as far as the names of the model go) *)

LowerCase == {"a", "b", "c", "d", "e", "f", "g", "h", "i", "j", "k", "l", "m",
              "n", "o", "p", "q", "r", "s", "t", "u", "v", "w", "x", "y", "z"}

LowerOf ==
    ("A" :> "a") @@ ("B" :> "b") @@ ("C" :> "c") @@ ("D" :> "d") @@
    ("E" :> "e") @@ ("F" :> "f") @@ ("G" :> "g") @@ ("H" :> "h") @@
    ("I" :> "i") @@ ("J" :> "j") @@ ("K" :> "k") @@ ("L" :> "l") @@
    ("M" :> "m") @@ ("N" :> "n") @@ ("O" :> "o") @@ ("P" :> "p") @@
    ("Q" :> "q") @@ ("R" :> "r") @@ ("S" :> "s") @@ ("T" :> "t") @@
    ("U" :> "u") @@ ("V" :> "v") @@ ("W" :> "w") @@ ("X" :> "x") @@
    ("Y" :> "y") @@ ("Z" :> "z")

UpperCase == DOMAIN LowerOf

Digits == {"0", "1", "2", "3", "4", "5", "6", "7", "8", "9"}

\* unicode.IsUpper, unicode.ToLower, unicode.ToUpper, IsLetter, IsNumber
IsUpper(c) == c \in UpperCase
ToLower(c) == IF c \in UpperCase THEN LowerOf[c] ELSE c
ToUpper(c) == IF c \in LowerCase
              THEN CHOOSE u \in UpperCase : LowerOf[u] = c ELSE c
\* letters that carry a combining mark, with the letter NFD leaves once the
\* mark is removed
Accented == ("ó" :> "o") @@ ("é" :> "e")

IsLetter(c) == c \in LowerCase \cup UpperCase \cup DOMAIN Accented
IsNumber(c) == c \in Digits

\* fmt's %d for the positions the model reaches
DigitOf == <<"1", "2", "3", "4", "5", "6", "7", "8", "9">>

-----------------------------------------------------------------------------
(* protobuf types and packages (protobuf.go, mapping.go) *)

PBasic(name) == [kind |-> "Basic", name |-> name]
PNamed(pkg, name) ==
    [kind |-> "Named", pkg |-> pkg, name |-> name, generated |-> FALSE]
NewGeneratedNamed(pkg, name) ==
    [kind |-> "Named", pkg |-> pkg, name |-> name, generated |-> TRUE]
PMap(k, v) == [kind |-> "Map", key |-> k, val |-> v]
PAlias(t, u) == [kind |-> "Alias", type |-> t, underlying |-> u]

\* DefaultMappings
DefaultMappings == {
       [go |-> QName(NoPath, <<"f", "l", "o", "a", "t", "6", "4">>), basic |-> TRUE, pkg |-> <<>>,
        name |-> <<"d", "o", "u", "b", "l", "e">>, import |-> <<>>],
       [go |-> QName(NoPath, <<"f", "l", "o", "a", "t", "3", "2">>), basic |-> TRUE, pkg |-> <<>>,
        name |-> <<"f", "l", "o", "a", "t">>, import |-> <<>>],
       [go |-> QName(NoPath, <<"i", "n", "t", "3", "2">>), basic |-> TRUE, pkg |-> <<>>,
        name |-> <<"i", "n", "t", "3", "2">>, import |-> <<>>],
       [go |-> QName(NoPath, <<"i", "n", "t", "6", "4">>), basic |-> TRUE, pkg |-> <<>>,
        name |-> <<"i", "n", "t", "6", "4">>, import |-> <<>>],
       [go |-> QName(NoPath, <<"u", "i", "n", "t", "3", "2">>), basic |-> TRUE, pkg |-> <<>>,
        name |-> <<"u", "i", "n", "t", "3", "2">>, import |-> <<>>],
       [go |-> QName(NoPath, <<"u", "i", "n", "t", "6", "4">>), basic |-> TRUE, pkg |-> <<>>,
        name |-> <<"u", "i", "n", "t", "6", "4">>, import |-> <<>>],
       [go |-> QName(NoPath, <<"b", "o", "o", "l">>), basic |-> TRUE, pkg |-> <<>>,
        name |-> <<"b", "o", "o", "l">>, import |-> <<>>],
       [go |-> QName(NoPath, <<"s", "t", "r", "i", "n", "g">>), basic |-> TRUE, pkg |-> <<>>,
        name |-> <<"s", "t", "r", "i", "n", "g">>, import |-> <<>>],
       [go |-> QName(NoPath, <<"u", "i", "n", "t", "8">>), basic |-> TRUE, pkg |-> <<>>,
        name |-> <<"u", "i", "n", "t", "3", "2">>, import |-> <<>>],
       [go |-> QName(NoPath, <<"i", "n", "t", "8">>), basic |-> TRUE, pkg |-> <<>>,
        name |-> <<"i", "n", "t", "3", "2">>, import |-> <<>>],
       [go |-> QName(NoPath, <<"b", "y", "t", "e">>), basic |-> TRUE, pkg |-> <<>>,
        name |-> <<"u", "i", "n", "t", "3", "2">>, import |-> <<>>],
       [go |-> QName(NoPath, <<"u", "i", "n", "t", "1", "6">>), basic |-> TRUE, pkg |-> <<>>,
        name |-> <<"u", "i", "n", "t", "3", "2">>, import |-> <<>>],
       [go |-> QName(NoPath, <<"i", "n", "t", "1", "6">>), basic |-> TRUE, pkg |-> <<>>,
        name |-> <<"i", "n", "t", "3", "2">>, import |-> <<>>],
       [go |-> QName(NoPath, <<"i", "n", "t">>), basic |-> TRUE, pkg |-> <<>>,
        name |-> <<"i", "n", "t", "6", "4">>, import |-> <<>>],
       [go |-> QName(NoPath, <<"u", "i", "n", "t">>), basic |-> TRUE, pkg |-> <<>>,
        name |-> <<"u", "i", "n", "t", "6", "4">>, import |-> <<>>],
       [go |-> QName(NoPath, <<"u", "i", "n", "t", "p", "t", "r">>), basic |-> TRUE, pkg |-> <<>>,
        name |-> <<"u", "i", "n", "t", "6", "4">>, import |-> <<>>],
       [go |-> QName(NoPath, <<"r", "u", "n", "e">>), basic |-> TRUE, pkg |-> <<>>,
        name |-> <<"i", "n", "t", "3", "2">>, import |-> <<>>],
       [go |-> QName(GoPath.Time, Names.Time), basic |-> FALSE,
        pkg |-> <<"g", "o", "o", "g", "l", "e", ".", "p", "r", "o", "t", "o", "b", "u", "f">>,
        name |-> <<"T", "i", "m", "e", "s", "t", "a", "m", "p">>,
        import |-> <<"g", "o", "o", "g", "l", "e", "/", "p", "r", "o", "t", "o", "b", "u", "f", "/", "t", "i", "m", "e", "s", "t", "a", "m", "p", ".", "p", "r", "o", "t", "o">>],
       [go |-> QName(GoPath.Time, Names.Duration), basic |-> FALSE,
        pkg |-> <<"g", "o", "o", "g", "l", "e", ".", "p", "r", "o", "t", "o", "b", "u", "f">>,
        name |-> <<"D", "u", "r", "a", "t", "i", "o", "n">>,
        import |-> <<"g", "o", "o", "g", "l", "e", "/", "p", "r", "o", "t", "o", "b", "u", "f", "/", "d", "u", "r", "a", "t", "i", "o", "n", ".", "p", "r", "o", "t", "o">>]}

\* Transformer.findMapping (no custom mappings are set)
HasMapping(qn) == \E m \in DefaultMappings : m.go = qn
findMapping(qn) == CHOOSE m \in DefaultMappings : m.go = qn

\* ProtoType.Type
MappingType(m) == IF m.basic THEN PBasic(m.name) ELSE PNamed(m.pkg, m.name)

isImported(imports, file) == \E k \in 1..Len(imports) : imports[k] = file

\* Package.Import
Import(imports, m) ==
    IF m.import # <<>> /\ ~isImported(imports, m.import)
    THEN Append(imports, m.import) ELSE imports

\* filepath.Join(path, "generated.proto"): empty elements are ignored and the
\* result is cleaned, so a trailing separator of path is not doubled
GeneratedProto(path) ==
    (IF path = <<>> THEN <<>>
     ELSE IF path[Len(path)] = "/" THEN path
     ELSE path \o <<"/">>)
    \o <<"g", "e", "n", "e", "r", "a", "t", "e", "d", ".", "p", "r", "o", "t", "o">>

\* Package.ImportFromPath
ImportFromPath(imports, ppath, path) ==
    IF path # ppath /\ ~isImported(imports, GeneratedProto(path))
    THEN Append(imports, GeneratedProto(path)) ELSE imports

GogoProto ==
    <<"g", "i", "t", "h", "u", "b", ".", "c", "o", "m", "/", "g", "o", "g",
    "o", "/", "p", "r", "o", "t", "o", "b", "u", "f", "/", "g", "o", "g", "o",
    "p", "r", "o", "t", "o", "/", "g", "o", "g", "o", ".", "p", "r", "o", "t",
    "o">>

-----------------------------------------------------------------------------
(* transformer (transform.go) *)

\* toProtobufPkg: '/' and '.' become '.', letters and digits stay, every
\* other character is dropped, then the combining marks are removed
\* (transform.Chain(norm.NFD, runes.Remove(runes.In(unicode.Mn)), norm.NFC))
RECURSIVE toProtobufPkg(_)
toProtobufPkg(path) ==
    IF path = <<>> THEN <<>>
    ELSE LET c == Head(path)
         IN  (IF c \in {"/", "."} THEN <<".">>
              ELSE IF c \in DOMAIN Accented THEN <<Accented[c]>>
              ELSE IF IsLetter(c) \/ IsNumber(c) THEN <<c>>
              ELSE <<>>) \o toProtobufPkg(Tail(path))

\* toLowerSnakeCase
RECURSIVE snakeFrom(_, _, _)
snakeFrom(str, k, lastWasUpper) ==
    IF k > Len(str) THEN <<>>
    ELSE (IF IsUpper(str[k]) /\ k # 1 /\ ~lastWasUpper
          THEN <<"_">> ELSE <<>>)
         \o <<ToLower(str[k])>> \o snakeFrom(str, k + 1, IsUpper(str[k]))

toLowerSnakeCase(str) == snakeFrom(str, 1, FALSE)

\* toUpperSnakeCase
toUpperSnakeCase(str) ==
    LET l == toLowerSnakeCase(str) IN [k \in 1..Len(l) |-> ToUpper(l[k])]

\* capitalize
capitalize(str) == <<ToUpper(str[1])>> \o Tail(str)

isNamed(t) == t.kind = "Named"
isCtx(t) == t.kind = "Named" /\ t.path = GoPath.Context /\ t.name = Names.Context
isError(t) == t.kind = "Named" /\ t.path = NoPath /\ t.name = Names.error
isByteSlice(t) == t.kind = "Basic" /\ IsRepeated(t) /\ t.name = Names.byte

\* removeFirstCtx, removeLastError
removeFirstCtx(types) ==
    IF Len(types) > 0 /\ isCtx(types[1])
    THEN [types |-> Tail(types), has |-> TRUE]
    ELSE [types |-> types, has |-> FALSE]
removeLastError(types) ==
    IF Len(types) > 0 /\ isError(types[Len(types)])
    THEN [types |-> SubSeq(types, 1, Len(types) - 1), has |-> TRUE]
    ELSE [types |-> types, has |-> FALSE]

\* Transformer.transformType: the protobuf type (NilT for nil) and the
\* imports of the package after the call
RECURSIVE transformType(_, _, _)
transformType(imports, ppath, t) ==
    IF isError(t) THEN [imports |-> imports, typ |-> NilT]
    ELSE CASE t.kind = "Named" ->
                 IF HasMapping(NamedString(t))
                 THEN With(findMapping(NamedString(t)), LAMBDA m :
                          [imports |-> Import(imports, m),
                           typ |-> MappingType(m)])
                 ELSE [imports |-> ImportFromPath(imports, ppath, t.path),
                       typ |-> PNamed(toProtobufPkg(t.path), t.name)]
           [] t.kind = "Basic" ->
                 IF HasMapping(QName(NoPath, t.name))
                 THEN With(findMapping(QName(NoPath, t.name)), LAMBDA m :
                          [imports |-> Import(imports, m),
                           typ |-> MappingType(m)])
                 ELSE [imports |-> imports, typ |-> NilT]
           [] t.kind = "Map" ->
                 With(transformType(imports, ppath, t.key), LAMBDA k :
                 With(transformType(k.imports, ppath, t.val), LAMBDA v :
                     [imports |-> v.imports, typ |-> PMap(k.typ, v.typ)]))
           [] t.kind = "Alias" ->
                 With(transformType(imports, ppath, t.type), LAMBDA d :
                 With(transformType(d.imports, ppath, t.underlying),
                      LAMBDA u :
                     [imports |-> u.imports, typ |-> PAlias(d.typ, u.typ)]))
           [] OTHER -> [imports |-> imports, typ |-> NilT]

NilField == [Name |-> <<>>, Pos |-> 0, Repeated |-> FALSE, Type |-> NilT]

\* Transformer.transformField
transformField(imports, ppath, field, pos) ==
    IF isByteSlice(field.Type)
    THEN [imports |-> imports,
          field |-> [Name |-> toLowerSnakeCase(field.Name), Pos |-> pos,
                     Repeated |-> FALSE,
                     Type |-> PBasic(<<"b", "y", "t", "e", "s">>)]]
    ELSE With(transformType(imports, ppath, field.Type), LAMBDA r :
             [imports |-> r.imports,
              field |-> IF r.typ = NilT THEN NilField
                        ELSE [Name |-> toLowerSnakeCase(field.Name),
                              Pos |-> pos,
                              Repeated |-> IsRepeated(field.Type),
                              Type |-> r.typ]])

\* Message.Reserve
Reserve(msg, pos) == [msg EXCEPT !.Reserved = Append(@, pos)]

\* a transformStruct that numbers the fields it keeps 1, 2, ...
FieldPosCompact(k, msg) == Len(msg.Fields) + 1

\* the position transformStruct and createMessageFromTypes give the k-th
\* field of the list they walk: i+1 for the 0-based loop index i
FieldPos(k, msg) == k

\* Transformer.transformStruct: the loop over s.Fields from the k-th on
RECURSIVE transformStructFrom(_, _, _, _, _)
transformStructFrom(imports, ppath, fields, k, msg) ==
    IF k > Len(fields) THEN [imports |-> imports, msg |-> msg]
    ELSE With(transformField(imports, ppath, fields[k], FieldPos(k, msg)),
              LAMBDA r :
             transformStructFrom(r.imports, ppath, fields, k + 1,
                 IF r.field = NilField THEN Reserve(msg, FieldPos(k, msg))
                 ELSE [msg EXCEPT !.Fields = Append(@, r.field)]))

NewMessage(name) == [Name |-> name, Reserved |-> <<>>, Fields |-> <<>>]

transformStruct(imports, ppath, st) ==
    transformStructFrom(imports, ppath, st.Fields, 1, NewMessage(st.Name))

\* Transformer.createMessageFromTypes: the loop over types from the k-th on
RECURSIVE createMessageFrom(_, _, _, _, _, _)
createMessageFrom(imports, ppath, types, fieldPrefix, k, msg) ==
    IF k > Len(types) THEN [imports |-> imports, msg |-> msg]
    ELSE With(transformField(imports, ppath,
                      [Name |-> capitalize(fieldPrefix) \o <<DigitOf[k]>>,
                       Type |-> types[k]],
                      FieldPos(k, msg)),
              LAMBDA r :
             createMessageFrom(r.imports, ppath, types, fieldPrefix, k + 1,
                 IF r.field = NilField THEN msg
                 ELSE [msg EXCEPT !.Fields = Append(@, r.field)]))

createMessageFromTypes(imports, ppath, name, types, fieldPrefix) ==
    createMessageFrom(imports, ppath, types, fieldPrefix, 1, NewMessage(name))

\* Transformer.transformTypeList: the package after the call and the type
transformTypeList(pkg, types, names, name, msgNameSuffix, msgFieldPrefix) ==
    IF Len(types) # 1 \/ IsRepeated(types[1]) \/ ~isNamed(types[1])
    THEN With(name \o msgNameSuffix, LAMBDA msgName :
             IF msgName \in names THEN [pkg |-> pkg, typ |-> NilT]
             ELSE With(createMessageFromTypes(pkg.Imports, pkg.Path,
                               msgName, types, msgFieldPrefix),
                       LAMBDA r :
                      [pkg |-> [pkg EXCEPT !.Imports = r.imports,
                                           !.Messages = Append(@, r.msg)],
                       typ |-> NewGeneratedNamed(toProtobufPkg(pkg.Path),
                                                 msgName)]))
    ELSE With(transformType(pkg.Imports, pkg.Path, types[1]), LAMBDA r :
             [pkg |-> [pkg EXCEPT !.Imports = r.imports], typ |-> r.typ])


\* the suffixes and prefixes of synthesized messages and their fields
Affix ==
    [Request |-> <<"R", "e", "q", "u", "e", "s", "t">>,
     Response |-> <<"R", "e", "s", "p", "o", "n", "s", "e">>,
     arg |-> <<"a", "r", "g">>,
     result |-> <<"r", "e", "s", "u", "l", "t">>]

transformInputTypes(pkg, types, names, name) ==
    transformTypeList(pkg, types, names, name, Affix.Request, Affix.arg)
transformOutputTypes(pkg, types, names, name) ==
    transformTypeList(pkg, types, names, name, Affix.Response, Affix.result)

NilRPC == [Name |-> <<>>]

\* Transformer.transformFunc: the package after the call and the RPC
transformFunc(pkg, f, names) ==
    IF f.Receiver # NilT /\ ~isNamed(f.Receiver)
    THEN [pkg |-> pkg, rpc |-> NilRPC]
    ELSE With(IF f.Receiver # NilT
              THEN f.Receiver.name \o <<"_">> \o f.Name ELSE f.Name,
              LAMBDA name :
         With(removeFirstCtx(f.Input), LAMBDA ins :
         With(removeLastError(f.Output), LAMBDA outs :
         With(transformInputTypes(pkg, ins.types, names, name), LAMBDA i :
         With(transformOutputTypes(i.pkg, outs.types, names, name),
              LAMBDA o :
             [pkg |-> o.pkg,
              rpc |-> IF i.typ = NilT \/ o.typ = NilT THEN NilRPC
                      ELSE [Name |-> name,
                            Recv |-> IF f.Receiver # NilT
                                     THEN f.Receiver.name ELSE <<>>,
                            Method |-> f.Name,
                            HasCtx |-> ins.has,
                            HasError |-> outs.has,
                            IsVariadic |-> f.IsVariadic,
                            Input |-> i.typ,
                            Output |-> o.typ]])))))

\* Transformer.transformEnum
transformEnum(e) ==
    [Name |-> e.Name,
     Values |-> [k \in 1..Len(e.Values) |->
                    [Name |-> toUpperSnakeCase(e.Values[k]), Value |-> k - 1]]]

\* buildNameSet
buildNameSet(p) ==
    {p.Enums[k].Name : k \in 1..Len(p.Enums)}
        \cup {p.Structs[k].Name : k \in 1..Len(p.Structs)}

RECURSIVE transformStructs(_, _, _)
transformStructs(pkg, structs, k) ==
    IF k > Len(structs) THEN pkg
    ELSE With(transformStruct(pkg.Imports, pkg.Path, structs[k]), LAMBDA r :
             transformStructs([pkg EXCEPT !.Imports = r.imports,
                                          !.Messages = Append(@, r.msg)],
                              structs, k + 1))

RECURSIVE transformFuncs(_, _, _, _)
transformFuncs(pkg, funcs, names, k) ==
    IF k > Len(funcs) THEN pkg
    ELSE With(transformFunc(pkg, funcs[k], names), LAMBDA r :
             transformFuncs(IF r.rpc = NilRPC THEN r.pkg
                            ELSE [r.pkg EXCEPT !.RPCs = Append(@, r.rpc)],
                            funcs, names, k + 1))

\* Transformer.Transform
Transform(p) ==
    transformFuncs(
        [transformStructs([Name |-> toProtobufPkg(p.Path), Path |-> p.Path,
                           Imports |-> <<GogoProto>>, Messages |-> <<>>,
                           Enums |-> <<>>, RPCs |-> <<>>],
                          p.Structs, 1)
            EXCEPT !.Enums =
                [k \in 1..Len(p.Enums) |-> transformEnum(p.Enums[k])]],
        p.Funcs, buildNameSet(p), 1)

\* createStructTypeSet, createEnumTypeSet
createStructTypeSet(ps) ==
    UNION {{QName(ps[i].Path, ps[i].Structs[j].Name) :
               j \in 1..Len(ps[i].Structs)} : i \in 1..Len(ps)}
createEnumTypeSet(ps) == packagesEnums(ps)

-----------------------------------------------------------------------------
(* schema emitter (gen.go) *)

\* Generator.Generate: the text of generated.proto as its lines in order:
\* the syntax line, the package line, one line per import, the messages in
\* pkg.Messages order, the enums in pkg.Enums order, and the service when the
\* package has RPCs
Generate(pkg) ==
    <<[line |-> "syntax"], [line |-> "package", name |-> pkg.Name]>>
    \o [k \in 1..Len(pkg.Imports) |->
           [line |-> "import", name |-> pkg.Imports[k]]]
    \o [k \in 1..Len(pkg.Messages) |->
           [line |-> "message", name |-> pkg.Messages[k].Name,
            reserved |-> pkg.Messages[k].Reserved,
            fields |-> pkg.Messages[k].Fields]]
    \o [k \in 1..Len(pkg.Enums) |->
           [line |-> "enum", name |-> pkg.Enums[k].Name,
            values |-> pkg.Enums[k].Values]]
    \o (IF Len(pkg.RPCs) > 0
        THEN <<[line |-> "service", rpcs |-> pkg.RPCs]>> ELSE <<>>)

-----------------------------------------------------------------------------
(* The scanned packages Spec runs on: g/p and g/q, in either order.         *)
(*   g/p  struct A (its Generate flag and its fields vary), struct B (no    *)
(*        generate comment; one field, int or q.X), enum E, the aliases     *)
(*        M = map[string]q.X and L = []int, and a varying list of funcs     *)
(*   g/q  struct X (no generate comment), struct PingRequest (generate) and *)
(*        func Ping                                                         *)
(* os, time and context are not on the scan path.                           *)

FieldTypes ==
    {Ty.int, Ty.complex64, Ty.B, Ty.X, Ty.File, Ty.M, Ty.L,
     NewMap(Ty.string, Ty.File)}

\* the k-th declared field is named Fk
FieldName(k) == <<"F", DigitOf[k]>>

FieldsOf(ts) == [k \in 1..Len(ts) |-> [Name |-> FieldName(k), Type |-> ts[k]]]

FieldLists == UNION {[1..n -> FieldTypes] : n \in 0..MaxFields}

NewStruct(name, generate, ts) ==
    [Name |-> name, Generate |-> generate, Fields |-> FieldsOf(ts)]

NewFunc(name, ins, outs) ==
    [Name |-> name, Receiver |-> NilT, Input |-> ins, Output |-> outs,
     IsVariadic |-> FALSE]


\* the funcs g/p may declare
Fn ==
    [Get |-> NewFunc(<<"G", "e", "t">>, <<Ty.X>>, <<Ty.B, Ty.error>>),
     Sum |-> NewFunc(<<"S", "u", "m">>, <<Ty.int, Ty.int>>, <<Ty.int>>),
     Kind |-> NewFunc(<<"K", "i", "n", "d">>, <<Ty.E>>, <<>>),
     Open |-> NewFunc(<<"O", "p", "e", "n">>, <<Ty.File>>, <<Ty.B>>),
     Now |-> NewFunc(<<"N", "o", "w">>, <<>>, <<Ty.Time>>),
     Mix |-> NewFunc(<<"M", "i", "x">>, <<Ty.complex64, Ty.int>>, <<>>),
     Ctx |-> NewFunc(<<"C", "t", "x">>, <<Ty.Context, Ty.int>>, <<Ty.int>>),
     Put |-> NewFunc(<<"P", "u", "t">>, <<NewMap(Ty.string, Ty.File)>>,
                     <<>>),
     Do |-> [NewFunc(<<"D", "o">>, <<>>, <<>>)
                EXCEPT !.Receiver = NewNamed(GoPath.P, Names.A)],
     A_Do |-> NewFunc(<<"A", "_", "D", "o">>, <<>>, <<>>),
     Size |-> NewFunc(<<"S", "i", "z", "e">>, <<Ty.M>>, <<Ty.int>>),
     Cap |-> NewFunc(<<"C", "a", "p">>, <<Ty.L>>, <<Ty.int>>),
     Ping |-> NewFunc(<<"P", "i", "n", "g">>, <<Ty.int, Ty.int>>,
                      <<Ty.int>>)]

FuncChoices ==
    {<<>>, <<Fn.Get>>, <<Fn.Sum>>, <<Fn.Kind>>, <<Fn.Open>>, <<Fn.Now>>,
     <<Fn.Open, Fn.Sum>>, <<Fn.Mix>>, <<Fn.Ctx>>, <<Fn.Put>>,
     <<Fn.Do, Fn.A_Do>>, <<Fn.Get, Fn.Open, Fn.Now>>,
     <<Fn.Size, Fn.Cap, Fn.Now>>}

PkgP(gen, ts, tb, funcs) ==
    [Resolved |-> FALSE, Path |-> GoPath.P, Name |-> <<"p">>,
     Structs |-> <<NewStruct(Names.A, gen, ts), NewStruct(Names.B, FALSE, <<tb>>)>>,
     Enums |-> <<[Name |-> Names.E, Values |-> <<<<"O", "n">>, <<"O", "f", "f">>>>]>>,
     Funcs |-> funcs,
     Aliases |-> (QName(GoPath.P, Names.M) :> NewMap(Ty.string, Ty.X))
                 @@ (QName(GoPath.P, Names.L) :> Repeated(Ty.int))]

PkgQ ==
    [Resolved |-> FALSE, Path |-> GoPath.Q, Name |-> <<"q">>,
     Structs |-> <<NewStruct(Names.X, FALSE, <<Ty.string>>),
                   NewStruct(Fn.Ping.Name \o Affix.Request, TRUE,
                             <<Ty.int>>)>>,
     Enums |-> <<>>, Funcs |-> <<Fn.Ping>>, Aliases |-> EmptyMap]

\* the package list handed to the scanner, g/q first or g/p first
InputOrder(p, q, qFirst) == IF qFirst THEN <<q, p>> ELSE <<p, q>>

-----------------------------------------------------------------------------
(* transformToProtobuf (proteus.go) from the packages Scan returned *)

Init ==
    /\ \E gen \in BOOLEAN, ts \in FieldLists, tb \in {Ty.int, Ty.X},
          funcs \in FuncChoices, qFirst \in BOOLEAN :
          input = InputOrder(PkgP(gen, ts, tb, funcs), PkgQ, qFirst)
    /\ spkgs = input
    /\ info = [aliases |-> <<>>, packages |-> {}, structs |-> <<>>]
    /\ pcP = "start"
    /\ idx = 0
    /\ structSet = {}
    /\ enumSet = {}
    /\ ppkgs = <<>>
    /\ files = <<>>
    /\ rpkgs = <<>>
    /\ OthersIdle("pipe")

\* Resolve: info := getPackagesInfo(pkgs). transformToProtobuf calls Resolve
\* on the packages Scan returned; once it has returned nil, its caller may
\* call Resolve again on the same, resolved, packages
ResolveBegin ==
    /\ pcP \in {"start", "done"}
    /\ info' = getPackagesInfo(spkgs)
    /\ pcP' = IF pcP = "start" THEN "resolve" ELSE "resolveAgain"
    /\ rpkgs' = IF pcP = "start" THEN rpkgs ELSE spkgs
    /\ idx' = 0
    /\ UNCHANGED <<input, spkgs, structSet, enumSet, ppkgs, files>>
    /\ UNCHANGED <<scanVars, detVars, fnVars, writeVars>>

\* Resolve: one iteration of "for _, p := range pkgs"
ResolvePackage ==
    /\ pcP \in {"resolve", "resolveAgain"}
    /\ idx < Len(spkgs)
    /\ \E r \in {resolvePackage(spkgs[idx + 1], info)} :
           /\ spkgs' = [spkgs EXCEPT ![idx + 1] = r.pkg]
           /\ info' = r.info
    /\ idx' = idx + 1
    /\ UNCHANGED <<input, pcP, structSet, enumSet, ppkgs, files, rpkgs>>
    /\ UNCHANGED <<scanVars, detVars, fnVars, writeVars>>

\* NewTransformer, SetStructSet, SetEnumSet
TransformBegin ==
    /\ pcP = "resolve"
    /\ idx = Len(spkgs)
    /\ structSet' = createStructTypeSet(spkgs)
    /\ enumSet' = createEnumTypeSet(spkgs)
    /\ pcP' = "transform"
    /\ idx' = 0
    /\ UNCHANGED <<input, spkgs, info, ppkgs, files, rpkgs>>
    /\ UNCHANGED <<scanVars, detVars, fnVars, writeVars>>

\* scanner.New or Scan returns an error: transformToProtobuf returns it
ScanFails ==
    /\ pcP = "start"
    /\ pcP' = "failed"
    /\ UNCHANGED <<input, spkgs, info, idx, structSet, enumSet, ppkgs, files,
                   rpkgs>>
    /\ UNCHANGED <<scanVars, detVars, fnVars, writeVars>>

\* the mutation of TransformPackage: an error of generate is dropped
TransformPackageKeepGoing ==
    /\ pcP = "transform"
    /\ idx < Len(spkgs)
    /\ \E pkg \in {Transform(spkgs[idx + 1])}, ok \in BOOLEAN :
           /\ ppkgs' = Append(ppkgs, pkg)
           /\ files' = IF ok THEN Append(files, Generate(pkg)) ELSE files
    /\ idx' = idx + 1
    /\ pcP' = IF idx + 1 = Len(spkgs) THEN "done" ELSE pcP
    /\ UNCHANGED <<input, spkgs, info, structSet, enumSet, rpkgs>>
    /\ UNCHANGED <<scanVars, detVars, fnVars, writeVars>>

\* one iteration of "for _, p := range pkgs": Transform, then generate, which
\* writes the file (ok) or returns an error that transformToProtobuf returns
TransformPackage ==
    /\ pcP = "transform"
    /\ idx < Len(spkgs)
    /\ \E pkg \in {Transform(spkgs[idx + 1])}, ok \in BOOLEAN :
           /\ ppkgs' = Append(ppkgs, pkg)
           /\ files' = IF ok THEN Append(files, Generate(pkg)) ELSE files
           /\ pcP' = IF ~ok THEN "failed"
                      ELSE IF idx + 1 = Len(spkgs) THEN "done" ELSE pcP
    /\ idx' = idx + 1
    /\ UNCHANGED <<input, spkgs, info, structSet, enumSet, rpkgs>>
    /\ UNCHANGED <<scanVars, detVars, fnVars, writeVars>>

Next ==
    \/ ScanFails
    \/ ResolveBegin
    \/ ResolvePackage
    \/ TransformBegin
    \/ TransformPackage

Spec == Init /\ [][Next]_vars

-----------------------------------------------------------------------------
(* Two executions of buildPackage's collectEnums, Resolve, Transform and    *)
(* Generate on one package: g/p with the aliases E, K and T, all of them    *)
(* named integer types; which of them have constants (enum values) and      *)
(* which carry the generate comment varies, and so does the way the         *)
(* constants are declared.                                                  *)

Runs == {1, 2}


DetKeys ==
    {QName(GoPath.P, Names.E), QName(GoPath.P, Names.K),
     QName(GoPath.P, Names.T)}

\* the package as the scanObject loop of buildPackage leaves it
DetScanned ==
    [Resolved |-> FALSE, Path |-> GoPath.P, Name |-> <<"p">>,
     Structs |-> <<>>, Enums |-> <<>>, Funcs |-> <<>>,
     Aliases |-> [k \in DetKeys |-> Ty.int]]

\* A type with constants has three, declared in the order <T>C, <T>A, <T>B:
\*   "block"     const ( TC T = iota; TA; TB )
\*   "twoBlocks" const ( TC T = iota; TA ) and then const ( TB T = 2 )
\*   "separate"  const TC T = 0, const TA T = 1, const TB T = 2

\* the constants of the type k in declaration order, each with the iota of
\* its declaration (ast.Object.Data of the constant)
DeclaredConsts(k, layout) ==
    [j \in 1..3 |->
        [name |-> k[2] \o <<(<<"C", "A", "B">>)[j]>>,
         pos |-> CASE layout = "block" -> j - 1
                   [] layout = "twoBlocks" -> (<<0, 1, 0>>)[j]
                   [] OTHER -> 0]]

\* ctx.enumValues[k] with the iota of every constant, in the order the
\* constants were met: buildPackage walks scope.Names(), which is sorted
enumValuesOf(k, layout) ==
    [j \in 1..3 |-> DeclaredConsts(k, layout)[(<<2, 3, 1>>)[j]]]

\* sort.Stable(values): by pos, equal pos keeping their order
insertByPos(sorted, v) ==
    With(Cardinality({j \in 1..Len(sorted) : sorted[j].pos <= v.pos}),
         LAMBDA n : SubSeq(sorted, 1, n) \o <<v>>
                    \o SubSeq(sorted, n + 1, Len(sorted)))

RECURSIVE stableSort(_)
stableSort(vs) ==
    IF vs = <<>> THEN <<>>
    ELSE insertByPos(stableSort(SubSeq(vs, 1, Len(vs) - 1)), vs[Len(vs)])

\* newEnum
newEnum(name, vals) ==
    [Name |-> name,
     Values |-> [j \in 1..Len(vals) |-> stableSort(vals)[j].name]]

\* a collectEnums that promotes every type with constants, annotated or not
collectEnumUnannotated(p, k, ctx) ==
    IF k \in ctx.vals
    THEN [p EXCEPT !.Enums = Append(@, newEnum(k[2],
                                               enumValuesOf(k, ctx.layout))),
                   !.Aliases = MapRestrict(@, DOMAIN @ \ {k})]
    ELSE p

\* one iteration of "for k := range p.Aliases" in collectEnums, for the key k
collectEnum(p, k, ctx) ==
    IF k \in ctx.vals /\ k \in ctx.gen
    THEN [p EXCEPT !.Enums = Append(@, newEnum(k[2],
                                               enumValuesOf(k, ctx.layout))),
                   !.Aliases = MapRestrict(@, DOMAIN @ \ {k})]
    ELSE p

InitDet ==
    /\ dIn \in [vals : SUBSET DetKeys, gen : SUBSET DetKeys, layout : {"block", "twoBlocks", "separate"}]
    /\ dLeft = [r \in Runs |-> DetKeys]
    /\ dPkg = [r \in Runs |-> DetScanned]
    /\ dOut = [r \in Runs |-> <<>>]
    /\ OthersIdle("det")

\* collectEnums: the range over the map p.Aliases yields any key it has not
\* yielded yet
CollectEnumsStep(r) ==
    /\ dLeft[r] # {}
    /\ \E k \in dLeft[r] :
          /\ dLeft' = [dLeft EXCEPT ![r] = @ \ {k}]
          /\ dPkg' = [dPkg EXCEPT ![r] = collectEnum(@, k, dIn)]
    /\ UNCHANGED <<dIn, dOut>>
    /\ UNCHANGED <<scanVars, pipeVars, fnVars, writeVars>>

\* the rest of the execution: Resolve, Transform, Generate
EmitPackage(r) ==
    /\ dLeft[r] = {}
    /\ dOut[r] = <<>>
    /\ dOut' = [dOut EXCEPT ![r] =
           Generate(Transform(
               resolvePackage(dPkg[r], getPackagesInfo(<<dPkg[r]>>)).pkg))]
    /\ UNCHANGED <<dIn, dLeft, dPkg>>
    /\ UNCHANGED <<scanVars, pipeVars, fnVars, writeVars>>

NextDet ==
    \/ \E r \in Runs : CollectEnumsStep(r)
    \/ \E r \in Runs : EmitPackage(r)

SpecDet == InitDet /\ [][NextDet]_vars

-----------------------------------------------------------------------------
(* Properties of Scan and of the importer, checked under SpecScan *)

ScanReturned == scanRet.state = "returned"

\* the goroutines whose scanPackage returned an error
FailedTasks == {t \in Tasks : tpc[t] \in {"lock", "record", "done"}
                              /\ ~scanned[t].ok}

\* C2: a successful Scan returns as many packages as there are input paths,
\* and the i-th package is the one scanned from the i-th path, whatever the
\* order in which the goroutines finished.
ScanPreservesInputOrder ==
    (ScanReturned /\ ~scanRet.isNil) =>
        /\ Len(scanRet.pkgs) = Len(paths)
        /\ \A i \in 1..Len(paths) : scanRet.pkgs[i] = ScannedPackage(paths[i])

\* Scan succeeded although the last goroutine recorded its package first
ScanOutOfOrderWitness ==
    /\ ScanReturned /\ ~scanRet.isNil
    /\ recorded[1] = NumTasks
    /\ \A i \in 1..Len(paths) : scanRet.pkgs[i] = ScannedPackage(paths[i])

\* C3: when Scan returns every goroutine has finished; if some scan failed the
\* result is nil with one error entry per failed package, otherwise the error
\* is nil and no returned package is nil.
ScanAggregatesErrors ==
    ScanReturned =>
        /\ \A t \in Tasks : tpc[t] = "done"
        /\ FailedTasks # {} =>
              /\ scanRet.isNil
              /\ Len(scanRet.err) = Cardinality(FailedTasks)
              /\ \A t \in FailedTasks :
                    \E i \in 1..Len(scanRet.err) : scanRet.err[i] = paths[t]
        /\ FailedTasks = {} =>
              /\ ~scanRet.isNil
              /\ scanRet.err = <<>>
              /\ \A i \in 1..Len(scanRet.pkgs) : scanRet.pkgs[i] # NilPackage

\* Scan returned the joined error of two failed packages
ScanTwoErrorsWitness ==
    /\ ScanReturned /\ scanRet.isNil
    /\ Cardinality(FailedTasks) >= 2
    /\ Len(scanRet.err) = Cardinality(FailedTasks)

\* C4: any two successful ImportFrom calls for one path return the same
\* package object, concurrent calls that both missed the cache included.
ImportReturnsSamePackage ==
    \A r1 \in returned : \A r2 \in returned : r1[1] = r2[1] => r1[2] = r2[2]

\* C5: cache misses serialize: each path is parsed and type-checked by at most
\* one goroutine and its cache entry is written at most once.
ImportMissesSerialize ==
    \A p \in Paths :
        /\ Cardinality({t \in Tasks : <<p, t>> \in parsedBy}) <= 1
        /\ cacheWrites[p] <= 1

\* a goroutine is at an access of report.msgStack
ReadsMsgStack(t) == tpc[t] = "report" /\ testing
WritesMsgStack(t) == tpc[t] = "append"

\* C6: the scan goroutines share no unguarded mutable state: no goroutine is
\* at a read or write of report.msgStack while another is at a write of it,
\* and the importer cache and Scan's lists are touched under their mutex only.
ScanSharesOnlyGuardedState ==
    /\ \A t1 \in Tasks : \A t2 \in Tasks \ {t1} :
          ~(WritesMsgStack(t1) /\ (ReadsMsgStack(t2) \/ WritesMsgStack(t2)))
    /\ \A t \in Tasks : InImport(t, "check") \/ InImport(t, "store")
                            => impMut = t
    /\ \A t \in Tasks : tpc[t] = "record" => scanMut = t

-----------------------------------------------------------------------------
(* Properties of Resolve and Transform, checked under Spec *)

Done == pcP = "done"

\* the scanner package / protobuf package of a path, in a list of packages
PkgOf(ps, path) == ps[CHOOSE i \in 1..Len(ps) : ps[i].Path = path]

ScannedPaths == {input[i].Path : i \in 1..Len(input)}

StructNames(p) == {p.Structs[k].Name : k \in 1..Len(p.Structs)}
MessageNames(p) == {p.Messages[k].Name : k \in 1..Len(p.Messages)}

\* the structs declared in the input, as qualified names
InputStructs ==
    UNION {{QName(input[i].Path, n) : n \in StructNames(input[i])} :
           i \in 1..Len(input)}

InputStruct(qn) ==
    CHOOSE st \in {PkgOf(input, qn[1]).Structs[k] :
                      k \in 1..Len(PkgOf(input, qn[1]).Structs)} :
        st.Name = qn[2]

\* the qualified names a declared type refers to: a named type, the
\* underlying type of the alias it names, the key and the value of a map
RECURSIVE TypeRefs(_)
TypeRefs(t) ==
    CASE t.kind = "Named" ->
            {NamedString(t)} \cup
            (IF NamedString(t) \in DOMAIN getPackagesInfo(input).aliases
             THEN TypeRefs(getPackagesInfo(input).aliases[NamedString(t)])
             ELSE {})
      [] t.kind = "Map" -> TypeRefs(t.key) \cup TypeRefs(t.val)
      [] OTHER -> {}

\* the structs a struct's fields refer to
StructRefs(qn) ==
    InputStructs \cap
        UNION {TypeRefs(InputStruct(qn).Fields[k].Type) :
               k \in 1..Len(InputStruct(qn).Fields)}

RECURSIVE ReachStructs(_, _)
ReachStructs(S, n) ==
    IF n = 0 THEN S
    ELSE ReachStructs(S \cup UNION {StructRefs(qn) : qn \in S}, n - 1)

\* the structs referenced, directly or transitively, from a struct that has
\* the generate comment
ReferencedStructs ==
    ReachStructs({qn \in InputStructs : InputStruct(qn).Generate},
                 Cardinality(InputStructs))

\* C1: once Resolve and Transform have run, every struct referenced directly
\* or transitively (field types, map keys and values, underlying types of
\* aliases) from a struct with generate = true is still in its package's
\* Structs and is a message of its protobuf package, whatever the order of
\* the packages.
ReferencedStructsKept ==
    Done =>
        \A qn \in ReferencedStructs :
            /\ qn[2] \in StructNames(PkgOf(spkgs, qn[1]))
            /\ qn[2] \in MessageNames(PkgOf(ppkgs, qn[1]))

\* the messages of all protobuf packages produced so far
AllMessages ==
    UNION {{ppkgs[i].Messages[k] : k \in 1..Len(ppkgs[i].Messages)} :
           i \in 1..Len(ppkgs)}

Positions(m) == {m.Fields[k].Pos : k \in 1..Len(m.Fields)}
ReservedSet(m) == {m.Reserved[k] : k \in 1..Len(m.Reserved)}

\* C8: in every message Transform produces, from a struct or synthesized for
\* an RPC, the field positions are at least 1 and pairwise distinct, and no
\* reserved number is the position of a live field.
PositionsUniqueAndUnreserved ==
    \A m \in AllMessages :
        /\ \A k \in 1..Len(m.Fields) : m.Fields[k].Pos >= 1
        /\ \A k \in 1..Len(m.Fields) : \A j \in 1..Len(m.Fields) :
              m.Fields[k].Pos = m.Fields[j].Pos => k = j
        /\ ReservedSet(m) \cap Positions(m) = {}

\* a struct message with a reserved number below a live field, next to a
\* synthesized request message of two fields
ReservedAndSynthesizedWitness ==
    /\ \E m \in AllMessages :
          \E r \in ReservedSet(m) : \E q \in Positions(m) : r < q
    /\ \E m \in AllMessages :
          /\ Len(m.Name) > Len(Affix.Request)
          /\ SubSeq(m.Name, Len(m.Name) - Len(Affix.Request) + 1, Len(m.Name))
                = Affix.Request
          /\ Len(m.Fields) = 2

\* a declared field type that cannot be resolved: a named type of a package
\* that was not scanned and is not a custom type
Unresolvable(t) ==
    t.kind = "Named" /\ t.path \notin ScannedPaths /\ ~isCustomType(t)

MessageOf(path, name) ==
    CHOOSE m \in {PkgOf(ppkgs, path).Messages[k] :
                     k \in 1..Len(PkgOf(ppkgs, path).Messages)} :
        m.Name = name

\* the live fields of a message that carry the name of a declared field
FieldsNamed(m, name) ==
    {k \in 1..Len(m.Fields) : m.Fields[k].Name = toLowerSnakeCase(name)}

\* C9: for every struct field of an unresolvable type, the message Resolve
\* and Transform yield omits the field, has the field's 1-based declaration
\* position among its reserved numbers, and gives every other field the
\* position it has in the declaration.
UnresolvableFieldReserved ==
    Done =>
        \A qn \in InputStructs :
            qn[2] \in MessageNames(PkgOf(ppkgs, qn[1])) =>
                \A k \in 1..Len(InputStruct(qn).Fields) :
                    Unresolvable(InputStruct(qn).Fields[k].Type) =>
                        /\ FieldsNamed(MessageOf(qn[1], qn[2]),
                                       InputStruct(qn).Fields[k].Name) = {}
                        /\ k \in ReservedSet(MessageOf(qn[1], qn[2]))
                        /\ \A j \in 1..Len(InputStruct(qn).Fields) :
                              \A f \in FieldsNamed(MessageOf(qn[1], qn[2]),
                                          InputStruct(qn).Fields[j].Name) :
                                 MessageOf(qn[1], qn[2]).Fields[f].Pos = j

\* an RPC type names a message of the RPC's own package
NamesLocalMessage(t, i) ==
    t.pkg = ppkgs[i].Name /\ t.name \in MessageNames(ppkgs[i])

\* ... or a message of another scanned package whose generated.proto the
\* RPC's package imports
NamesImportedMessage(t, i) ==
    \E j \in 1..Len(ppkgs) :
        /\ j # i
        /\ t.pkg = ppkgs[j].Name
        /\ t.name \in MessageNames(ppkgs[j])
        /\ isImported(ppkgs[i].Imports, GeneratedProto(ppkgs[j].Path))

\* ... or the target of a built-in mapping
NamesMappingTarget(t) == \E m \in DefaultMappings : MappingType(m) = t

RPCTypeKnown(t, i) ==
    /\ t # NilT
    /\ t.kind = "Named"
    /\ NamesLocalMessage(t, i) \/ NamesImportedMessage(t, i)
          \/ NamesMappingTarget(t)

\* C10: every RPC of every package Resolve and Transform produce has Input
\* and Output set, and each names a message of that package's Messages, a
\* message of another scanned package whose generated.proto is imported, or
\* the target of a built-in type mapping.
RPCTypesKnown ==
    Done =>
        \A i \in 1..Len(ppkgs) : \A k \in 1..Len(ppkgs[i].RPCs) :
            /\ RPCTypeKnown(ppkgs[i].RPCs[k].Input, i)
            /\ RPCTypeKnown(ppkgs[i].RPCs[k].Output, i)

-----------------------------------------------------------------------------
(* Property of two executions, checked under SpecDet *)

\* C7: two executions on the same input write the same file: the enums,
\* messages, imports and RPCs come in the same order, whatever the order in
\* which the range over the map of aliases yields its keys.
ExecutionsAgree ==
    (dOut[1] # <<>> /\ dOut[2] # <<>>) => dOut[1] = dOut[2]

-----------------------------------------------------------------------------
(* Properties of transformFunc over the funcs Resolve kept, under Spec *)

\* the name transformFunc gives the RPC of f
RPCNameOf(f) ==
    IF f.Receiver # NilT THEN f.Receiver.name \o <<"_">> \o f.Name
    ELSE f.Name

RPCsNamed(pp, n) == {k \in 1..Len(pp.RPCs) : pp.RPCs[k].Name = n}
MessagesNamed(pp, n) == {k \in 1..Len(pp.Messages) : pp.Messages[k].Name = n}

\* the one remaining type is a non-repeated Named
UsedDirectly(types) ==
    Len(types) = 1 /\ ~IsRepeated(types[1]) /\ isNamed(types[1])

\* one field per type, named <prefix>1..<prefix>N, at positions 1..N
OneFieldPerType(m, types, prefix) ==
    /\ Len(m.Fields) = Len(types)
    /\ \A k \in 1..Len(types) :
          /\ m.Fields[k].Name = prefix \o <<DigitOf[k]>>
          /\ m.Fields[k].Pos = k

\* what the claim says of one side (input or output) of a func of the scanned
\* package sp in the protobuf package pp: refs are the types the RPCs of the
\* func name on that side
SideAsClaimed(pp, sp, types, msgName, prefix, refs) ==
    IF UsedDirectly(types)
    THEN /\ MessagesNamed(pp, msgName) = {}
         /\ \A t \in refs : t = transformType(<<>>, sp.Path, types[1]).typ
    ELSE msgName \notin buildNameSet(sp) =>
            /\ MessagesNamed(pp, msgName) # {}
            /\ \A k \in MessagesNamed(pp, msgName) :
                  OneFieldPerType(pp.Messages[k], types, prefix)
            /\ \A t \in refs : t = NewGeneratedNamed(pp.Name, msgName)

FuncAsClaimed(pp, sp, f) ==
    /\ SideAsClaimed(pp, sp, removeFirstCtx(f.Input).types,
                     RPCNameOf(f) \o Affix.Request, Affix.arg,
                     {pp.RPCs[k].Input : k \in RPCsNamed(pp, RPCNameOf(f))})
    /\ SideAsClaimed(pp, sp, removeLastError(f.Output).types,
                     RPCNameOf(f) \o Affix.Response, Affix.result,
                     {pp.RPCs[k].Output : k \in RPCsNamed(pp, RPCNameOf(f))})

\* C11: for every func handed to the transformer, after the leading context
\* and the trailing error are removed: a single non-repeated Named type is
\* the RPC's input (output) itself and no message is synthesized; in every
\* other case (the name being free) a message <RpcName>Request
\* (<RpcName>Response) is in the package with exactly one field per remaining
\* type, named arg1..argN (result1..resultN) at positions 1..N, and the RPC
\* refers to it.
SynthesizedMessagesComplete ==
    Done =>
        \A i \in 1..Len(spkgs) : \A j \in 1..Len(spkgs[i].Funcs) :
            FuncAsClaimed(ppkgs[i], spkgs[i], spkgs[i].Funcs[j])

\* a func before the j-th of sp has a message named n synthesized
SynthesizedEarlier(sp, j, n) ==
    \E h \in 1..(j - 1) :
        \/ /\ ~UsedDirectly(removeFirstCtx(sp.Funcs[h].Input).types)
           /\ RPCNameOf(sp.Funcs[h]) \o Affix.Request = n
        \/ /\ ~UsedDirectly(removeLastError(sp.Funcs[h].Output).types)
           /\ RPCNameOf(sp.Funcs[h]) \o Affix.Response = n

\* n names a scanned struct or enum of sp, or an earlier synthesized message
NameTaken(sp, j, n) == n \in buildNameSet(sp) \/ SynthesizedEarlier(sp, j, n)

\* the j-th func of sp needs a synthesized message whose name is taken
NameClash(sp, j) ==
    \/ /\ ~UsedDirectly(removeFirstCtx(sp.Funcs[j].Input).types)
       /\ NameTaken(sp, j, RPCNameOf(sp.Funcs[j]) \o Affix.Request)
    \/ /\ ~UsedDirectly(removeLastError(sp.Funcs[j].Output).types)
       /\ NameTaken(sp, j, RPCNameOf(sp.Funcs[j]) \o Affix.Response)

\* the funcs of sp other than the j-th whose RPC would have the same name
SameRPCName(sp, j) ==
    {h \in 1..Len(sp.Funcs) \ {j} :
        RPCNameOf(sp.Funcs[h]) = RPCNameOf(sp.Funcs[j])}

\* C12: a func whose synthesized Request or Response message name equals the
\* name of a scanned struct or enum of the package, or of a message
\* synthesized earlier for another func, produces no RPC: the package has no
\* more RPCs of its name than other funcs of that name.
ClashingFuncHasNoRPC ==
    Done =>
        \A i \in 1..Len(spkgs) : \A j \in 1..Len(spkgs[i].Funcs) :
            NameClash(spkgs[i], j) =>
                Cardinality(RPCsNamed(ppkgs[i], RPCNameOf(spkgs[i].Funcs[j])))
                    <= Cardinality(SameRPCName(spkgs[i], j))

-----------------------------------------------------------------------------
(* Properties of Resolve over the funcs of the scanned packages, under Spec *)

\* the alias table of the scanned input
InputAliases == getPackagesInfo(input).aliases

\* a type that has no resolution: a named type of a package that was not
\* scanned, an alias of a repeated type, a map with such a key or value
RECURSIVE HasNoResolution(_)
HasNoResolution(t) ==
    CASE t.kind = "Named" ->
            /\ ~isCustomType(t)
            /\ \/ t.path \notin ScannedPaths
               \/ /\ NamedString(t) \in DOMAIN InputAliases
                  /\ IsRepeated(InputAliases[NamedString(t)])
      [] t.kind = "Map" -> HasNoResolution(t.key) \/ HasNoResolution(t.val)
      [] OTHER -> FALSE

\* a resolvable type with its aliases substituted
RECURSIVE AliasSubstituted(_)
AliasSubstituted(t) ==
    CASE t.kind = "Named" ->
            IF ~isCustomType(t) /\ NamedString(t) \in DOMAIN InputAliases
            THEN NewAlias(t, InputAliases[NamedString(t)]) ELSE t
      [] t.kind = "Map" ->
            [t EXCEPT !.key = AliasSubstituted(t.key),
                      !.val = AliasSubstituted(t.val)]
      [] OTHER -> t

FuncHasNoResolution(f) ==
    \/ \E k \in 1..Len(f.Input) : HasNoResolution(f.Input[k])
    \/ \E k \in 1..Len(f.Output) : HasNoResolution(f.Output[k])

\* the funcs the claim says Resolve leaves, from the scanned funcs
RECURSIVE FuncsToKeep(_)
FuncsToKeep(funcs) ==
    IF funcs = <<>> THEN <<>>
    ELSE (IF FuncHasNoResolution(Head(funcs)) THEN <<>>
          ELSE <<[Head(funcs) EXCEPT
                    !.Input = [k \in 1..Len(@) |-> AliasSubstituted(@[k])],
                    !.Output = [k \in 1..Len(@) |-> AliasSubstituted(@[k])]]>>)
         \o FuncsToKeep(Tail(funcs))

\* C13: Resolve removes a func exactly when one of its input or output types
\* has no resolution; every other func stays, in the original relative order,
\* with its types unchanged apart from alias substitution.
ResolveKeepsResolvableFuncs ==
    Done =>
        \A i \in 1..Len(spkgs) :
            spkgs[i].Funcs = FuncsToKeep(input[i].Funcs)

\* the types of the struct fields and of the func signatures of a package
TypesOf(p) ==
    UNION {{p.Structs[s].Fields[k].Type : k \in 1..Len(p.Structs[s].Fields)} :
              s \in 1..Len(p.Structs)}
    \cup UNION {{p.Funcs[f].Input[k] : k \in 1..Len(p.Funcs[f].Input)}
                \cup {p.Funcs[f].Output[k] : k \in 1..Len(p.Funcs[f].Output)} :
                   f \in 1..Len(p.Funcs)}

\* a Map whose key or value is missing
MapMissingPart(t) == t.kind = "Map" /\ (t.key = NilT \/ t.val = NilT)

\* a scanned Map whose key or value has no resolution
MapHasNoResolution(t) == t.kind = "Map" /\ HasNoResolution(t)

\* the struct fields and the funcs of the scanned package p that hold such a
\* Map, as <<struct name, field name>> and as func names
FieldsHoldingBadMap(p) ==
    UNION {{<<p.Structs[s].Name, p.Structs[s].Fields[k].Name>> :
               k \in {k \in 1..Len(p.Structs[s].Fields) :
                         MapHasNoResolution(p.Structs[s].Fields[k].Type)}} :
              s \in 1..Len(p.Structs)}
FuncsHoldingBadMap(p) ==
    {p.Funcs[f].Name :
        f \in {f \in 1..Len(p.Funcs) :
                  \/ \E k \in 1..Len(p.Funcs[f].Input) :
                        MapHasNoResolution(p.Funcs[f].Input[k])
                  \/ \E k \in 1..Len(p.Funcs[f].Output) :
                        MapHasNoResolution(p.Funcs[f].Output[k])}}
FieldsIn(p) ==
    UNION {{<<p.Structs[s].Name, p.Structs[s].Fields[k].Name>> :
               k \in 1..Len(p.Structs[s].Fields)} : s \in 1..Len(p.Structs)}
FuncsIn(p) == {p.Funcs[f].Name : f \in 1..Len(p.Funcs)}

\* C18: Resolve never leaves a Map whose key or value is missing: a struct
\* field holding a Map with an unresolvable key or value is dropped, and so
\* is a func holding one.
ResolveDropsBrokenMaps ==
    Done =>
        \A i \in 1..Len(spkgs) :
            /\ \A t \in TypesOf(spkgs[i]) : ~MapMissingPart(t)
            /\ FieldsIn(spkgs[i]) \cap FieldsHoldingBadMap(input[i]) = {}
            /\ FuncsIn(spkgs[i]) \cap FuncsHoldingBadMap(input[i]) = {}

\* the protobuf type a context.Context parameter would become
ContextType == PNamed(toProtobufPkg(GoPath.Context), Names.Context)

\* a func whose first parameter is context.Context and whose other types all
\* have a resolution
TakesContext(f) ==
    /\ Len(f.Input) > 0
    /\ isCtx(f.Input[1])
    /\ \A k \in 2..Len(f.Input) : ~HasNoResolution(f.Input[k])
    /\ \A k \in 1..Len(f.Output) : ~HasNoResolution(f.Output[k])

\* the k-th RPC of pp has HasCtx set and no context in its input
RPCWithCtx(pp, k) ==
    /\ pp.RPCs[k].HasCtx
    /\ pp.RPCs[k].Input # ContextType
    /\ \A m \in MessagesNamed(pp, pp.RPCs[k].Name \o Affix.Request) :
          \A h \in 1..Len(pp.Messages[m].Fields) :
              pp.Messages[m].Fields[h].Type # ContextType

\* C14: a func with the generate comment whose first parameter is
\* context.Context (package context not being scanned) and whose other types
\* resolve gets, by Resolve and then Transform, an RPC with HasCtx true and
\* the context parameter absent from its input.
ContextFuncGetsRPC ==
    Done =>
        \A i \in 1..Len(input) : \A j \in 1..Len(input[i].Funcs) :
            TakesContext(input[i].Funcs[j]) =>
                \E k \in RPCsNamed(ppkgs[i], RPCNameOf(input[i].Funcs[j])) :
                    RPCWithCtx(ppkgs[i], k)

-----------------------------------------------------------------------------
(* Properties of the enums of a scanned package, checked under SpecDet *)

\* the enum lines of the file an execution wrote
EnumLines(r) == {k \in 1..Len(dOut[r]) : dOut[r][k].line = "enum"}

\* the constants of the enum named n, in declaration order
ConstsOf(n) == DeclaredConsts(QName(GoPath.P, n), dIn.layout)

\* C15: the values of every enum carry the ordinals 0..n-1, no gap and no
\* repeat, assigned in the order in which the constants are declared.
EnumOrdinalsFollowDeclaration ==
    \A r \in Runs : \A k \in EnumLines(r) :
        /\ Len(dOut[r][k].values) = Len(ConstsOf(dOut[r][k].name))
        /\ \A j \in 1..Len(dOut[r][k].values) :
              /\ dOut[r][k].values[j].Value = j - 1
              /\ dOut[r][k].values[j].Name =
                    toUpperSnakeCase(ConstsOf(dOut[r][k].name)[j].name)

\* the qualified names of the enums of a scanned package
EnumKeys(p) == {QName(p.Path, p.Enums[j].Name) : j \in 1..Len(p.Enums)}

\* the types an execution has to promote: constants and the generate comment
Promoted == dIn.vals \cap dIn.gen

\* C16: once a package is scanned, a named type with a basic underlying type
\* is among the package's Enums exactly when it has the generate comment and
\* at least one constant; a promoted type is no longer in Aliases, every other
\* one still is, and at no time is a name both an enum and an alias.
EnumsExactlyPromotedAliases ==
    \A r \in Runs :
        /\ EnumKeys(dPkg[r]) \cap DOMAIN dPkg[r].Aliases = {}
        /\ dLeft[r] = {} =>
              /\ EnumKeys(dPkg[r]) = Promoted
              /\ Len(dPkg[r].Enums) = Cardinality(Promoted)
              /\ DOMAIN dPkg[r].Aliases = DetKeys \ Promoted

\* an execution finished collectEnums on a package with a promoted type, a
\* type that has constants but no comment and a type with the comment only
PromotedAndLeftWitness ==
    \E r \in Runs :
        /\ dLeft[r] = {}
        /\ Promoted # {}
        /\ dIn.vals \ dIn.gen # {}
        /\ dIn.gen \ dIn.vals # {}
        /\ EnumKeys(dPkg[r]) # {}

-----------------------------------------------------------------------------
(* Functions of the scanner, the transformer, the protobuf package and the  *)
(* rpc generator, each applied to one input                                 *)

MaxStructFields == 3
MaxPathLen == 3

\* largest number of successive calls on one message or one package
MaxCalls == 3

\* largest number of results of a method
MaxResults == 2

\* a types.Var of a struct with its tag; anon is Var.Anonymous(). Its type is
\* a basic type, a type scanType does not represent (a channel), or a named
\* type whose underlying type is a struct, with the fields of that struct
GoVar(name, typ, anon, tag) ==
    [name |-> name, typ |-> typ, anon |-> anon, tag |-> tag]

\* scanType, on these types
scanType(typ) ==
    CASE typ.kind = "Basic" -> NewBasic(typ.name)
      [] OTHER -> NilT

\* isIgnoredField: not exported, or tagged proteus:"-"
isIgnoredField(v) == ~IsUpper(v.name[1]) \/ v.tag = "-"

\* a HasField that looks at the field appended last only
HasFieldLast(s, name) ==
    Len(s.Fields) > 0 /\ s.Fields[Len(s.Fields)].Name = name

\* Struct.HasField
HasField(s, name) == \E k \in 1..Len(s.Fields) : s.Fields[k].Name = name

\* findStruct: the struct an embedded field's type leads to, or nil
findStruct(typ) == IF typ.kind = "Struct" THEN typ ELSE NilT

\* scanStruct(s, elem): the loop over the fields of elem
RECURSIVE scanStruct(_, _)
scanStruct(s, elem) ==
    IF elem = <<>> THEN s
    ELSE LET v == Head(elem)
         IN  scanStruct(
                 IF isIgnoredField(v) \/ HasField(s, v.name) THEN s
                 ELSE IF v.anon
                      THEN (IF findStruct(v.typ) # NilT
                            THEN scanStruct(s, findStruct(v.typ).fields)
                            ELSE s)
                 ELSE IF scanType(v.typ) = NilT THEN s
                 ELSE [s EXCEPT !.Fields =
                          Append(@, [Name |-> v.name,
                                     Type |-> scanType(v.typ)])],
                 Tail(elem))

\* the fields a struct declaration of the model is made of: direct fields X
\* and Y of type int (X also tagged "-" or of a channel type), embedded
\* structs E and G whose fields are strings, and an embedded non-struct N
GoFields ==
    {GoVar(<<"X">>, [kind |-> "Basic", name |-> Names.int], FALSE, ""),
     GoVar(<<"X">>, [kind |-> "Basic", name |-> Names.int], FALSE, "-"),
     GoVar(<<"X">>, [kind |-> "Chan"], FALSE, ""),
     GoVar(<<"Y">>, [kind |-> "Basic", name |-> Names.int], FALSE, ""),
     GoVar(<<"E">>,
           [kind |-> "Struct",
            fields |-> <<GoVar(<<"X">>, [kind |-> "Basic",
                                         name |-> Names.string], FALSE, "")>>],
           TRUE, ""),
     GoVar(<<"E">>,
           [kind |-> "Struct",
            fields |-> <<GoVar(<<"X">>, [kind |-> "Basic",
                                         name |-> Names.string], FALSE, ""),
                         GoVar(<<"Y">>, [kind |-> "Basic",
                                         name |-> Names.string], FALSE, "")>>],
           TRUE, ""),
     GoVar(<<"G">>,
           [kind |-> "Struct",
            fields |-> <<GoVar(<<"Y">>, [kind |-> "Basic",
                                         name |-> Names.string], FALSE, ""),
                         GoVar(<<"X">>, [kind |-> "Basic",
                                         name |-> Names.string], FALSE, "-")>>],
           TRUE, ""),
     GoVar(<<"N">>, [kind |-> "Basic", name |-> Names.int], TRUE, "")}

\* the struct declarations are those Go accepts (no two fields of one name);
\* the import paths are made of the characters a, B, 7, /, ., - and o with
\* an acute accent
\* isStringer(t), on the methods of t in declaration order: the first method
\* named String decides, unless its single result is not a basic type
RECURSIVE isStringer(_)
isStringer(methods) ==
    IF methods = <<>> THEN [stringer |-> FALSE, err |-> FALSE]
    ELSE LET m == Head(methods)
         IN  IF m.name # "String" THEN isStringer(Tail(methods))
             ELSE IF m.params # 0 THEN [stringer |-> FALSE, err |-> TRUE]
             ELSE IF Len(m.results) # 1
                  THEN [stringer |-> FALSE, err |-> TRUE]
             ELSE IF m.results[1].kind = "Basic"
                  THEN (IF m.results[1].name = Ty.string.name
                        THEN [stringer |-> TRUE, err |-> FALSE]
                        ELSE [stringer |-> FALSE, err |-> TRUE])
             ELSE isStringer(Tail(methods))

\* Generator.genMethodCall: the arguments of the call of the original
\* function in the generated server method; "in" itself when the input is
\* not a synthesized message, else one in.Arg<i> per field of the message
\* findMessage returns for the name of the input
genMethodCall(proto, rpc) ==
    IF ~(rpc.Input.kind = "Named" /\ rpc.Input.generated)
    THEN <<<<"i", "n">>>>
    ELSE LET msg == proto.Messages[
                        CHOOSE k \in 1..Len(proto.Messages) :
                            /\ proto.Messages[k].Name = rpc.Input.name
                            /\ \A j \in 1..(k - 1) :
                                   proto.Messages[j].Name # rpc.Input.name]
         IN  [i \in 1..Len(msg.Fields) |->
                 <<"i", "n", ".", "A", "r", "g">> \o <<DigitOf[i]>>]

\* the arguments of one call of Package.Import or Package.ImportFromPath on
\* the package of path "a"
ImportArgs ==
    {[fn |-> "Import", import |-> i] :
        i \in {<<>>, <<"t", ".", "p", "r", "o", "t", "o">>, GeneratedProto(<<"a">>)}}
    \cup {[fn |-> "ImportFromPath", path |-> q] :
             q \in {<<"a">>, <<"b">>, <<"a", "/">>}}

InitFn ==
    /\ \/ \E n \in 1..MaxStructFields : \E elem \in [1..n -> GoFields] :
             /\ \A j, k \in 1..n : elem[j].name = elem[k].name => j = k
             /\ fIn = [op |-> "scanStruct", elem |-> elem]
             /\ fOut = [done |-> FALSE]
       \/ \E n \in 1..MaxPathLen : \E path \in [1..n -> {"a", "B", "7", "/", ".", "-", "ó"}] :
             /\ path[1] # "/" /\ path[n] # "/"
             /\ fIn = [op |-> "toProtobufPkg", path |-> path]
             /\ fOut = [done |-> FALSE]
       \/ \E n \in 1..MaxCalls : \E pos \in [1..n -> 1..2] :
             /\ fIn = [op |-> "Reserve", pos |-> pos]
             /\ fOut = [done |-> FALSE, at |-> 0, msg |-> NewMessage(<<"M">>)]
       \/ \E n \in 1..MaxCalls : \E calls \in [1..n -> ImportArgs] :
             /\ fIn = [op |-> "Import", path |-> <<"a">>, calls |-> calls]
             /\ fOut = [done |-> FALSE, at |-> 0, imports |-> <<>>]
       \/ \E f \in {Fn.Sum, Fn.Mix, Fn.Ctx, Fn.Kind, Fn.Now, Fn.Get} :
             /\ fIn = [op |-> "genMethodCall", func |-> f]
             /\ fOut = [done |-> FALSE]
       \/ \E exported \in BOOLEAN, n \in 1..2, r \in 0..MaxResults :
          \E name \in [1..n -> {"String", "Len"}], params \in [1..n -> 0..1],
             results \in [1..r -> {[kind |-> "Basic", name |-> Ty.string.name],
                                   [kind |-> "Basic", name |-> Ty.int.name],
                                   [kind |-> "Slice"]}] :
             /\ \A j, k \in 1..n : name[j] = name[k] => j = k
             /\ fIn = [op |-> "scanObject", exported |-> exported,
                       methods |-> [k \in 1..n |->
                                       [name |-> name[k], params |-> params[k],
                                        results |-> IF name[k] = "String"
                                                    THEN results
                                                    ELSE <<>>]]]
             /\ fOut = [done |-> FALSE]
    /\ OthersIdle("fn")

\* scanObject: scanStruct(&Struct{Name: ...}, s)
ScanStructCall ==
    /\ fIn.op = "scanStruct"
    /\ ~fOut.done
    /\ fOut' = [done |-> TRUE,
                st |-> scanStruct(NewStruct(<<"S">>, FALSE, <<>>), fIn.elem)]
    /\ UNCHANGED fIn
    /\ UNCHANGED <<scanVars, pipeVars, detVars, writeVars>>

\* Transform: Name: toProtobufPkg(p.Path)
ToProtobufPkgCall ==
    /\ fIn.op = "toProtobufPkg"
    /\ ~fOut.done
    /\ fOut' = [done |-> TRUE, pkg |-> toProtobufPkg(fIn.path)]
    /\ UNCHANGED fIn
    /\ UNCHANGED <<scanVars, pipeVars, detVars, writeVars>>

\* msg.Reserve(pos), the next call of the sequence on the same message
ReserveCall ==
    /\ fIn.op = "Reserve"
    /\ ~fOut.done
    /\ fOut' = [done |-> fOut.at + 1 = Len(fIn.pos),
                at |-> fOut.at + 1,
                msg |-> Reserve(fOut.msg, fIn.pos[fOut.at + 1])]
    /\ UNCHANGED fIn
    /\ UNCHANGED <<scanVars, pipeVars, detVars, writeVars>>

\* pkg.Import(typ) or pkg.ImportFromPath(path), the next call of the sequence
\* on the same package
ImportCall ==
    /\ fIn.op = "Import"
    /\ ~fOut.done
    /\ \E c \in {fIn.calls[fOut.at + 1]} :
           fOut' = [done |-> fOut.at + 1 = Len(fIn.calls),
                    at |-> fOut.at + 1,
                    imports |-> IF c.fn = "Import"
                                THEN Import(fOut.imports, c)
                                ELSE ImportFromPath(fOut.imports, fIn.path,
                                                    c.path)]
    /\ UNCHANGED fIn
    /\ UNCHANGED <<scanVars, pipeVars, detVars, writeVars>>

\* buildPackage on a package whose scope holds one named type t:
\* scanObject returns nil for an object that is not exported and the error of
\* isStringer(t) otherwise, and buildPackage returns the error of scanObject
ScanObjectCall ==
    /\ fIn.op = "scanObject"
    /\ ~fOut.done
    /\ fOut' = [done |-> TRUE,
                err |-> fIn.exported /\ isStringer(fIn.methods).err]
    /\ UNCHANGED fIn
    /\ UNCHANGED <<scanVars, pipeVars, detVars, writeVars>>

\* the rpc generator on a package that declares the one func: transformFunc
\* in an empty protobuf package, then genMethodCall for the RPC, if any
GenMethodCallCall ==
    /\ fIn.op = "genMethodCall"
    /\ ~fOut.done
    /\ \E r \in {transformFunc([Name |-> toProtobufPkg(GoPath.P),
                                 Path |-> GoPath.P, Imports |-> <<>>,
                                 Messages |-> <<>>, Enums |-> <<>>,
                                 RPCs |-> <<>>], fIn.func, {})} :
           fOut' = [done |-> TRUE, proto |-> r.pkg, rpc |-> r.rpc,
                    call |-> IF r.rpc = NilRPC THEN <<>>
                             ELSE genMethodCall(r.pkg, r.rpc)]
    /\ UNCHANGED fIn
    /\ UNCHANGED <<scanVars, pipeVars, detVars, writeVars>>

NextFn ==
    \/ GenMethodCallCall
    \/ ScanObjectCall
    \/ ScanStructCall
    \/ ToProtobufPkgCall
    \/ ReserveCall
    \/ ImportCall

SpecFn == InitFn /\ [][NextFn]_vars

-----------------------------------------------------------------------------
(* Properties of scanStruct and toProtobufPkg, checked under SpecFn *)

StructScanned == fIn.op = "scanStruct" /\ fOut.done

\* a declared field the scanner would keep on its own
Keepable(v) == ~isIgnoredField(v) /\ scanType(v.typ) # NilT

\* the field v of a declaration offers a field named n: v is that field, or
\* v embeds a struct that promotes it
Promotes(v, n) ==
    /\ v.anon /\ ~isIgnoredField(v) /\ findStruct(v.typ) # NilT
    /\ \E j \in 1..Len(v.typ.fields) :
          v.typ.fields[j].name = n /\ Keepable(v.typ.fields[j])
Declares(v, n) == ~v.anon /\ v.name = n /\ Keepable(v)
Offers(v, n) == Declares(v, n) \/ Promotes(v, n)

\* the type of the field named n that v offers
OfferedType(v, n) ==
    IF v.anon
    THEN scanType(v.typ.fields[CHOOSE j \in 1..Len(v.typ.fields) :
                                  v.typ.fields[j].name = n].typ)
    ELSE scanType(v.typ)

\* the declaration has an outer field n and an embedded struct promoting n
Collision(elem, n) ==
    /\ \E k \in 1..Len(elem) : Declares(elem[k], n)
    /\ \E k \in 1..Len(elem) : Promotes(elem[k], n)

OuterField(elem, n) == elem[CHOOSE k \in 1..Len(elem) : Declares(elem[k], n)]
FirstOffer(elem, n) ==
    elem[CHOOSE k \in 1..Len(elem) :
            /\ Offers(elem[k], n)
            /\ \A j \in 1..(k - 1) : ~Offers(elem[j], n)]

ScannedFieldsNamed(st, n) == {k \in 1..Len(st.Fields) : st.Fields[k].Name = n}

FieldNamesOfModel == {<<"X">>, <<"Y">>}

\* C17: (as stated) when an embedded struct promotes a field with the name of a
\* directly declared field, the scanned struct has exactly one field of that
\* name and it is the outer one, whichever of the two is declared first.
EmbeddedCollisionKeepsOuter ==
    StructScanned =>
        \A n \in FieldNamesOfModel :
            Collision(fIn.elem, n) =>
                /\ Cardinality(ScannedFieldsNamed(fOut.st, n)) = 1
                /\ \A k \in ScannedFieldsNamed(fOut.st, n) :
                      fOut.st.Fields[k].Type =
                          OfferedType(OuterField(fIn.elem, n), n)

\* C17 (amended): the scanned struct has exactly one field of that name, and it
\* is the one met first in declaration order: the outer field when it is
\* declared before the embedded struct, the promoted field when the embedded
\* struct comes first.
EmbeddedCollisionKeepsFirst ==
    StructScanned =>
        \A n \in FieldNamesOfModel :
            Collision(fIn.elem, n) =>
                /\ Cardinality(ScannedFieldsNamed(fOut.st, n)) = 1
                /\ \A k \in ScannedFieldsNamed(fOut.st, n) :
                      fOut.st.Fields[k].Type =
                          OfferedType(FirstOffer(fIn.elem, n), n)

\* a struct was scanned whose embedded struct, declared first, promotes the
\* name of a later outer field, and the promoted field is the one kept
EmbeddedFirstWitness ==
    /\ StructScanned
    /\ \E n \in FieldNamesOfModel :
          /\ Collision(fIn.elem, n)
          /\ FirstOffer(fIn.elem, n).anon
          /\ \E k \in ScannedFieldsNamed(fOut.st, n) :
                fOut.st.Fields[k].Type # OfferedType(OuterField(fIn.elem, n), n)

\* C19: the name of a protobuf package consists of lowercase letters, digits
\* and dots only.
PackageNameIsLowercase ==
    (fIn.op = "toProtobufPkg" /\ fOut.done) =>
        \A k \in 1..Len(fOut.pkg) :
            fOut.pkg[k] \in LowerCase \cup Digits \cup {"."}

-----------------------------------------------------------------------------
(* Generator.writeFile (gen.go): os.Stat, os.MkdirAll, ioutil.WriteFile      *)
(* ioutil.WriteFile opens the file with O_WRONLY|O_CREATE|O_TRUNC, writes    *)
(* the data with one Write, which may stop short with an error, and closes.  *)
(* A file's content is the sequence of its lines.                            *)

\* Generate's buffer for the packages whose generated.proto the model writes
WriteContents ==
    {Generate(Transform(p)) :
        p \in {PkgQ,
               PkgP(TRUE, <<Ty.int>>, Ty.int, <<Fn.Sum>>),
               PkgP(FALSE, <<>>, Ty.int, <<Fn.Kind>>)}}

\* generated.proto with the given lines; no file is
\* [exists |-> FALSE, data |-> <<>>]
FileWith(data) == [exists |-> TRUE, data |-> data]

InitWrite ==
    /\ wOld \in {[exists |-> FALSE, data |-> <<>>]}
                  \cup {FileWith(d) : d \in WriteContents}
    /\ wNew \in WriteContents
    /\ disk = wOld
    /\ wpc = "stat"
    /\ OthersIdle("write")

\* fi, err := os.Stat(g.basePath); if err != nil { return err }
WriteStat ==
    /\ wpc = "stat"
    /\ wpc' \in {"mkdir", "failed"}
    /\ UNCHANGED <<wOld, wNew, disk>>
    /\ UNCHANGED <<scanVars, pipeVars, detVars, fnVars>>

\* os.MkdirAll(path, fi.Mode())
WriteMkdirAll ==
    /\ wpc = "mkdir"
    /\ wpc' \in {"open", "failed"}
    /\ UNCHANGED <<wOld, wNew, disk>>
    /\ UNCHANGED <<scanVars, pipeVars, detVars, fnVars>>

\* ioutil.WriteFile: OpenFile creates the file or truncates it
WriteOpen ==
    /\ wpc = "open"
    /\ \/ wpc' = "write" /\ disk' = FileWith(<<>>)
       \/ wpc' = "failed" /\ disk' = disk
    /\ UNCHANGED <<wOld, wNew>>
    /\ UNCHANGED <<scanVars, pipeVars, detVars, fnVars>>

\* ioutil.WriteFile: f.Write(data) writes all of data, or a part of it and
\* returns an error; then Close and return
WriteData ==
    /\ wpc = "write"
    /\ \E n \in 0..Len(wNew) :
          /\ disk' = FileWith(SubSeq(wNew, 1, n))
          /\ wpc' = IF n = Len(wNew) THEN "done" ELSE "failed"
    /\ UNCHANGED <<wOld, wNew>>
    /\ UNCHANGED <<scanVars, pipeVars, detVars, fnVars>>

NextWrite ==
    \/ WriteStat
    \/ WriteMkdirAll
    \/ WriteOpen
    \/ WriteData

SpecWrite == InitWrite /\ [][NextWrite]_vars

\* C20: the generated file is written atomically: at every moment, and after
\* a failed call too, generated.proto is either what it was before the call
\* (the complete previous content, or absent) or the complete new content,
\* never a part of the new content.
WriteIsAtomic == disk = wOld \/ disk = FileWith(wNew)

-----------------------------------------------------------------------------
(* The abort of transformToProtobuf, checked under Spec *)

\* packages whose Transform has run, and packages whose file was emitted
Transformed == Len(ppkgs)

Emitted == Len(files)

\* C21: the pipeline aborts on the first hard error: a package is
\* transformed only after Scan and Resolve have completed for every package,
\* packages are transformed and emitted one at a time in input order, and once
\* scanner.New, Scan or the emitter of a package has returned an error, that
\* error is returned and no later package is transformed or emitted.
PipelineAbortsOnFirstError ==
    /\ Transformed > 0 =>
           /\ pcP \notin {"start", "resolve"}
           /\ \A i \in 1..Len(spkgs) : spkgs[i].Resolved
    /\ \A i \in 1..Transformed : ppkgs[i].Path = input[i].Path
    /\ \A i \in 1..Emitted : files[i] = Generate(ppkgs[i])
    /\ Emitted < Transformed =>
           /\ pcP = "failed"
           /\ Transformed = Emitted + 1
    /\ pcP = "failed" /\ Transformed = 0 => spkgs = input
    /\ pcP \in {"done", "resolveAgain"} => Emitted = Len(input)

\* the emitter fails on the first of two packages and the second is never
\* transformed
AbortAtFirstPackageWitness ==
    /\ pcP = "failed"
    /\ Transformed = 1
    /\ Emitted = 0
    /\ Len(input) = 2

-----------------------------------------------------------------------------
(* Properties of Message.Reserve and Package.Import, checked under SpecFn *)

\* the positions handed to Reserve so far
ReservedSoFar == {fIn.pos[k] : k \in 1..fOut.at}

\* C22: Message.Reserve is idempotent: after any sequence of Reserve calls,
\* each reserved position appears exactly once in the message's Reserved
\* list, so reserving the same position twice leaves a single entry.
ReserveIsIdempotent ==
    fIn.op = "Reserve" =>
        /\ {fOut.msg.Reserved[k] : k \in 1..Len(fOut.msg.Reserved)}
               = ReservedSoFar
        /\ \A j, k \in 1..Len(fOut.msg.Reserved) :
               fOut.msg.Reserved[j] = fOut.msg.Reserved[k] => j = k

\* the calls made so far on the package
ImportCallsSoFar == {fIn.calls[k] : k \in 1..fOut.at}

-----------------------------------------------------------------------------
(* The Stringer check of scanObject, checked under SpecFn *)

\* the method is named String and is not func() string
WrongString(m) ==
    /\ m.name = "String"
    /\ \/ m.params # 0
       \/ Len(m.results) # 1
       \/ m.results # <<[kind |-> "Basic", name |-> Ty.string.name]>>

\* C24: for every exported named type that declares a method named String
\* whose signature is not exactly func() string (a parameter is present, the
\* number of results is not one, or the single result is of any type other
\* than string), scanning the type's package fails with an error.
WrongStringerFailsScan ==
    (/\ fIn.op = "scanObject"
     /\ fOut.done
     /\ fIn.exported
     /\ \E k \in 1..Len(fIn.methods) : WrongString(fIn.methods[k]))
        => fOut.err

-----------------------------------------------------------------------------
(* Names of a transformed package, checked under Spec *)

\* C25: after Transform of any resolved package, no two messages of the
\* resulting package have the same name, no message has the same name as an
\* enum of the package, and no two RPCs have the same name; this includes
\* the messages synthesized for a function "A_B" and for a method B of type A.
TransformedNamesAreUnique ==
    \A i \in 1..Len(ppkgs) :
        /\ \A j, k \in 1..Len(ppkgs[i].Messages) :
               ppkgs[i].Messages[j].Name = ppkgs[i].Messages[k].Name => j = k
        /\ \A j \in 1..Len(ppkgs[i].Messages), k \in 1..Len(ppkgs[i].Enums) :
               ppkgs[i].Messages[j].Name # ppkgs[i].Enums[k].Name
        /\ \A j, k \in 1..Len(ppkgs[i].RPCs) :
               ppkgs[i].RPCs[j].Name = ppkgs[i].RPCs[k].Name => j = k

-----------------------------------------------------------------------------
(* The package after a func that gets no RPC, checked under Spec *)

\* the messages of pp that Transform synthesized under the name n: they are
\* named n and do not come from a struct of the scanned package sp
SynthesizedNamed(sp, pp, n) ==
    {k \in MessagesNamed(pp, n) : n \notin StructNames(sp)}

\* C26: whenever transformFunc produces no RPC for a function, the protobuf
\* package is left as it was before the call: no Request or Response message
\* synthesized for that function remains in Messages.
FuncWithoutRPCLeavesNoMessage ==
    Done =>
        \A i \in 1..Len(spkgs) : \A j \in 1..Len(spkgs[i].Funcs) :
            RPCsNamed(ppkgs[i], RPCNameOf(spkgs[i].Funcs[j])) = {} =>
                /\ SynthesizedNamed(spkgs[i], ppkgs[i],
                       RPCNameOf(spkgs[i].Funcs[j]) \o Affix.Request) = {}
                /\ SynthesizedNamed(spkgs[i], ppkgs[i],
                       RPCNameOf(spkgs[i].Funcs[j]) \o Affix.Response) = {}

-----------------------------------------------------------------------------
(* A second Resolve on resolved packages, checked under Spec *)

\* the second call of Resolve has returned
ResolvedAgain == pcP = "resolveAgain" /\ idx = Len(spkgs)

\* C27: Resolve is idempotent: calling Resolve a second time on packages that
\* have already been resolved leaves every package's structs, fields, field
\* types and functions exactly as they were after the first call.
ResolveIsIdempotent ==
    ResolvedAgain =>
        \A i \in 1..Len(spkgs) :
            /\ spkgs[i].Structs = rpkgs[i].Structs
            /\ spkgs[i].Funcs = rpkgs[i].Funcs

-----------------------------------------------------------------------------
(* The structs Resolve keeps, checked under Spec *)

\* the qualified names a resolved type refers to: a named type, the declared
\* and the underlying type of an alias, the key and the value of a map
RECURSIVE ResolvedRefs(_)
ResolvedRefs(t) ==
    CASE t.kind = "Named" -> {NamedString(t)}
      [] t.kind = "Alias" -> ResolvedRefs(t.type) \cup ResolvedRefs(t.underlying)
      [] t.kind = "Map" -> ResolvedRefs(t.key) \cup ResolvedRefs(t.val)
      [] OTHER -> {}

\* qn is referred to by a field of a struct or by a parameter or result of a
\* func that is in one of the packages ps
ReferencedIn(ps, qn) ==
    \E j \in 1..Len(ps) : \E t \in TypesOf(ps[j]) : qn \in ResolvedRefs(t)

\* C28: after Resolve, every struct with generate = false that is still
\* present in a package is referenced from a struct or a function that is
\* itself still present in the resolved packages.
KeptStructsAreReferenced ==
    Done =>
        \A i \in 1..Len(spkgs) : \A s \in 1..Len(spkgs[i].Structs) :
            ~spkgs[i].Structs[s].Generate =>
                ReferencedIn(spkgs,
                             QName(spkgs[i].Path, spkgs[i].Structs[s].Name))

-----------------------------------------------------------------------------
(* Termination of Scan, checked under SpecScanFair *)

\* the importer's mutex is held by t only inside the two critical sections of
\* ImportFrom, the cache lookup and the cache write
ImporterLockIsShort ==
    \A t \in Tasks :
        impMut = t => InImport(t, "check") \/ InImport(t, "store")

\* Scan has returned, every goroutine has finished and no mutex is held
ScanFinishedClean ==
    /\ ScanReturned
    /\ \A t \in Tasks : tpc[t] = "done" /\ stack[t] = <<>>
    /\ wg = 0
    /\ scanMut = 0
    /\ impMut = 0

\* C29: Scan always terminates: every scan task finishes and releases every
\* mutex it took, the wait for all tasks returns, and no task blocks forever
\* on Scan's mutex or on the importer's mutex; the importer never holds its
\* mutex while it parses a package or recursively imports a dependency.
ScanTerminates ==
    /\ <>[]ScanFinishedClean
    /\ [](ScanReturned => ScanFinishedClean)
    /\ []ImporterLockIsShort

\* Scan returned after both goroutines parsed the shared dependency c and
\* each took the importer's mutex to store it
ScanTerminatedAfterContention ==
    /\ ScanFinishedClean
    /\ cacheWrites["c"] = 2

-----------------------------------------------------------------------------
(* The call genMethodCall generates, checked under SpecFn *)

\* the RPC of the func has a synthesized Request message as its input
CallOnRequest ==
    /\ fIn.op = "genMethodCall"
    /\ fOut.done
    /\ fOut.rpc # NilRPC
    /\ fOut.rpc.Input.kind = "Named"
    /\ fOut.rpc.Input.generated

\* the fields of the Request message of the RPC
RequestFields ==
    UNION {{fOut.proto.Messages[k].Fields[j] :
               j \in 1..Len(fOut.proto.Messages[k].Fields)} :
           k \in MessagesNamed(fOut.proto, fOut.rpc.Input.name)}

\* the parameters of the func the call has to supply (the context apart)
CallParams == removeFirstCtx(fIn.func.Input).types

\* the name createMessageFromTypes gives the field of the K-th parameter
ArgField(K) == toLowerSnakeCase(capitalize(Affix.arg) \o <<DigitOf[K]>>)

\* C30: for every RPC whose input is a synthesized Request message, each
\* in.ArgK that the generated server method passes to the original function
\* names a field that exists in that Request message, and the K-th argument
\* of the call carries the value of the function's K-th parameter, also when
\* a parameter type has no protobuf mapping and its field was left out.
CallArgsAreRequestFields ==
    CallOnRequest =>
        /\ Len(fOut.call) = Len(CallParams)
        /\ \A K \in 1..Len(fOut.call) :
               /\ fOut.call[K] = <<"i", "n", ".">> \o capitalize(Affix.arg)
                                     \o <<DigitOf[K]>>
               /\ \E fld \in RequestFields :
                      fld.Name = ArgField(K) /\ fld.Pos = K

====
